---- MODULE Spec2Model ----
(***************************************************************************)
(* Verification model of cosmos-particles.                                 *)
(*                                                                         *)
(* Spec        components/ParticleGestureSystem.tsx: mount effects, the    *)
(*             transition state machine (triggerTransition + the phase     *)
(*             block of animate), the frame clock, the requestAnimation-   *)
(*             Frame loop and its teardown.                                *)
(*                                                                         *)
(* Units of Spec.  Time is counted in ticks of 50 ms, so the dt cap of     *)
(* 0.05 s is one tick.  exp.progress is counted in units of 0.02, so one   *)
(* tick of dt at speed 0.8 adds 0.8 * 0.05 = 0.04 = 2 units, the           *)
(* thresholds 1.5 and 0.8 are 75 and 40 units and the value 1.0 is 50      *)
(* units.  The uniform uExplosion is counted in units of 1/400, which      *)
(* makes min(progress, 1) = 8 * min(n, 50) and                             *)
(* max(0, 1 - 1.5 * min(progress / 0.8, 1)) = max(0, 400 - 15 * min(n,40)) *)
(* exact.                                                                  *)
(*                                                                         *)
(* SpringSpec  the idle spring step of animate on one particle, in fixed    *)
(*             point (1/1000), after morph-mode triggers.                  *)
(* GestureSpec hooks/useHandGesture.ts: the effect and its cleanup, the    *)
(*             asynchronous initialisation, the onResults callback, and    *)
(*             the gesture read of animate.                                *)
(* TrackerSpec components/HandTracker.tsx: startTracking, processResults   *)
(*             and the unmount cleanup.                                    *)
(* Each specification leaves the variables of the others at their initial  *)
(* values.                                                                 *)
(*                                                                         *)
(* Position arrays are identified by the template they were generated     *)
(* from and a generation number (every generate() call returns a new       *)
(* Float32Array filled from Math.random()).                                *)
(***************************************************************************)
EXTENDS Integers, Sequences, FiniteSets, TLC

VARIABLES
    \* ---- ParticleGestureSystem ----
    lifecycle,            \* "mounting" | "running" | "failed" | "unmounted"
    currentPositionsRef,  \* NoBuffer | "allocated"  (velocitiesRef is set by the same statements)
    targetPositionsRef,   \* Null | position array
    explosionRef,         \* [active, phase, progress, burstVelocities, pendingTarget]
    uExplosion,           \* material.uniforms.uExplosion.value, in 1/400
    transitionMode,       \* React state
    transitionModeRef,    \* ref read by triggerTransition
    selectedTemplate,     \* React state
    isTransitioning,      \* React state
    nextGen,              \* number of the next array generate() returns
    animationIdRef,       \* 0 (null) | id of the last requestAnimationFrame
    pendingFrame,         \* 0 (none) | id of the frame request the browser holds
    clockRunning,         \* THREE.Clock.running
    sinceFrame,           \* ticks since the start of the last frame (clock.oldTime is "now")
    dt,                   \* the dt the last frame computed
    frameGap,             \* ticks between the starts of the last two frames (NoGap: no two yet)
    retriggered,          \* an explode/vortex trigger ran since the last frame
    frameFault,           \* "none" | "last" | "earlier": which animate execution threw
    selectedColor,        \* React state
    uTintColor,           \* NoMaterial | material.uniforms.uTintColor.value
    starCatalog,          \* times aColor, aSize, aBrightness, aRandom were assigned
    \* ---- idle spring (one particle) ----
    current,              \* <<x, y, z>> in 1/1000
    velocity,             \* <<vx, vy, vz>> in 1/1000 per frame
    target,               \* <<x, y, z>> in 1/1000
    springFrames,         \* idle frames since the last morph trigger
    startDist2,           \* squared distance to target when it was last replaced
    fromRest,             \* the velocity was zero when target was last replaced
    morphs,               \* morph triggers so far
    \* ---- useHandGesture ----
    enabled,              \* the hook's argument (cameraEnabled)
    hookMounted,          \* the component that uses the hook is mounted
    effectRuns,           \* runs of the effect that started initHandDetection
    isMounted,            \* run -> the isMounted flag of that run's closure
    initPc,               \* run -> where that run's initHandDetection stands
    cameraOn,             \* run -> that run's Camera is delivering frames
    handsRef,             \* 0 (null) | run whose Hands object the ref holds
    cameraRef,            \* 0 (null) | run whose Camera the ref holds
    inflight,             \* run -> results its Hands object has yet to deliver
    callbacks,            \* onResults calls that got past the flag
    dataRef,              \* the GestureState the ref holds
    gesture,              \* the GestureState in React state
    smoothedRef,          \* number of the callback that last updated the accumulators
    lastNewState,         \* newState of the last callback that got past the flag
    frameG,               \* g of the last animate frame
    gFrame,               \* flips at every animate frame
    hookStreamRef,        \* 0 (null) | run whose media stream streamRef holds
    initAge,              \* 5 s ticks the indicator has shown "Initialiseren..."
    \* ---- HandTracker ----
    trackerMounted,       \* the component is mounted (videoRef.current is set)
    trackingPc,           \* where startTracking stands
    useTasksVision,       \* startTracking's choice of library
    streamRef,            \* the ref holds the camera stream
    streamLive,           \* the camera stream's tracks are running
    handLandmarkerRef,    \* "null" | "landmarker" | "hands"
    landmarkerClosed,     \* close() was called on the detector
    detectPending,        \* a requestAnimationFrame(detect) is outstanding
    cameraLoop,           \* the fallback Camera calls onFrame
    handsInflight,        \* results the fallback Hands object has yet to deliver
    smoothedTension,      \* smoothedRef.current.tension, 1/1000000
    smoothedCenterX,      \* smoothedRef.current.centerX, 1/1000000
    updates,              \* calls of onUpdate
    retries,              \* clicks on Retry
    \* ---- gesture interpreter (onResults of useHandGesture, calculateTension) ----
    sCenterX,             \* smoothedRef.current.centerX of the hook, 1/10000
    sCenterY,             \* smoothedRef.current.centerY of the hook, 1/10000
    produced,             \* newState of the last callback interpreted
    interpCalls,          \* callbacks interpreted so far
    probe,                \* a hand with its openness and its tension, 1/1000
    \* ---- runs of processResults without hands ----
    decayVariant,         \* "HandTracker" | "part_003": whose processResults runs
    startTension,         \* smoothedRef.current.tension before the first call
    startCenterX,         \* smoothedRef.current.centerX before the first call
    \* ---- session ----
    storage,              \* what localStorage holds under SESSION_KEY
    sessionPc,            \* "stored" | "loaded": loadSession has run
    savedSessionRef,      \* savedSessionRef.current: <<>> (null) or <<session>>
    loadThrew,            \* loadSession threw
    prefs,                \* the initial values of the five preference states
    \* ---- ParticleSystem (geometryFactory) ----
    shape,                \* "none" | the type last given to generateGeometry
    targetPos,            \* "none" | the shape whose positions it returned
    \* ---- trail of the particle ----
    trailFrame,           \* trailFrame modulo 2
    trailPos,             \* slot -> <<x, y, z>>, 1/1000; slot 0 of the code is index 1
    trailAlpha,           \* slot -> alpha, 1/1000
    \* ---- shape generators ----
    genRequest,           \* the call: generator, count and what Math.random returns
    generated,            \* NoResult | what the call returned
    \* ---- the data-explosion and mobile-sphere pages ----
    page,                 \* "none" | the page that was mounted
    pagePc,               \* "initial" | "mounted" | "unmounted"
    containerRef,         \* TRUE while containerRef.current is the page's element
    cleanupRef,           \* 0 (null) | the effect run whose cleanup it holds
    pageInitPc,               \* effect run -> "idle" | "importing" | "ready" | "returned" | "threw"
    importsLeft,          \* effect run -> awaited imports still to settle
    disposed,             \* effect run -> its disposed flag
    loopRequest,          \* effect run -> its loop is requested as animation frame
    loopFrames,           \* executions of a loop body so far
    \* ---- explosion and bloom of the sphere pages ----
    bloomPage,            \* "none" | the file whose CONFIG is in use
    isExploded,
    bloomTarget,          \* 1/10
    gsapImports,          \* import('gsap') promises not yet settled
    bloomTweens,          \* gsap tweens running
    explosions,           \* doExplosion calls that passed the guard
    \* ---- ZenParticles: the fist-explosion detector ----
    recentLowRef,         \* 1/1000
    explosionCooldownRef,
    explosionsSeen,       \* explosions triggered so far, counted up to 2
    sinceExplosion,       \* handleHandUpdate calls since the last trigger, capped
    lastGap               \* calls from the trigger before the last to the last, capped

sceneVars == <<lifecycle, currentPositionsRef, targetPositionsRef, explosionRef,
               uExplosion, transitionMode, transitionModeRef, selectedTemplate,
               isTransitioning, nextGen, animationIdRef, pendingFrame, clockRunning,
               sinceFrame, dt, frameGap, retriggered, frameFault, selectedColor,
               uTintColor, starCatalog>>
colorVars == <<selectedColor, uTintColor, starCatalog>>
springVars == <<current, velocity, target, springFrames, startDist2, fromRest, morphs>>
gestureVars == <<enabled, hookMounted, effectRuns, isMounted, initPc, cameraOn,
                 handsRef, cameraRef, inflight, callbacks, dataRef, gesture,
                 smoothedRef, lastNewState, frameG, gFrame, hookStreamRef, initAge>>
trackerVars == <<trackerMounted, trackingPc, useTasksVision, streamRef, streamLive,
                 handLandmarkerRef, landmarkerClosed, detectPending, cameraLoop,
                 handsInflight, smoothedTension, smoothedCenterX, updates, retries>>
interpVars == <<sCenterX, sCenterY, produced, interpCalls, probe>>
decayVars == <<decayVariant, startTension, startCenterX>>
sessionVars == <<storage, sessionPc, savedSessionRef, loadThrew, prefs>>
geometryVars == <<shape, targetPos>>
trailVars == <<trailFrame, trailPos, trailAlpha>>
generatorVars == <<genRequest, generated>>
bloomVars == <<bloomPage, isExploded, bloomTarget, gsapImports, bloomTweens, explosions>>
zenVars == <<recentLowRef, explosionCooldownRef, explosionsSeen, sinceExplosion, lastGap>>
pageVars == <<page, pagePc, containerRef, cleanupRef, pageInitPc, importsLeft, disposed,
              loopRequest, loopFrames>>
\* the groups added after the first eight
extraVars == <<trailVars, generatorVars, pageVars, bloomVars, zenVars>>
otherThanScene == <<springVars, gestureVars, trackerVars, interpVars, decayVars,
                    sessionVars, geometryVars, extraVars>>
otherThanSpring == <<sceneVars, gestureVars, trackerVars, interpVars, decayVars,
                     sessionVars, geometryVars, extraVars>>
otherThanGesture == <<sceneVars, springVars, trackerVars, interpVars, decayVars,
                      sessionVars, geometryVars, extraVars>>
otherThanTracker == <<sceneVars, springVars, gestureVars, interpVars, decayVars,
                      sessionVars, geometryVars, extraVars>>
otherThanInterp == <<sceneVars, springVars, gestureVars, trackerVars, decayVars,
                     sessionVars, geometryVars, extraVars>>
otherThanSession == <<sceneVars, springVars, gestureVars, trackerVars, interpVars,
                      decayVars, geometryVars, extraVars>>
otherThanGeometry == <<sceneVars, springVars, gestureVars, trackerVars, interpVars,
                       decayVars, sessionVars, extraVars>>
otherThanTrail == <<sceneVars, gestureVars, trackerVars, interpVars, decayVars,
                    sessionVars, geometryVars, generatorVars, pageVars, bloomVars,
                    zenVars>>
otherThanGenerator == <<sceneVars, springVars, gestureVars, trackerVars,
                        interpVars, decayVars, sessionVars, geometryVars,
                        trailVars, pageVars, bloomVars, zenVars>>
otherThanPage == <<sceneVars, springVars, gestureVars, trackerVars, interpVars,
                   decayVars, sessionVars, geometryVars, trailVars, generatorVars,
                   bloomVars, zenVars>>
otherThanBloom == <<sceneVars, springVars, gestureVars, trackerVars, interpVars,
                    decayVars, sessionVars, geometryVars, trailVars, generatorVars,
                    pageVars, zenVars>>
otherThanZen == <<sceneVars, springVars, gestureVars, trackerVars, interpVars,
                  decayVars, sessionVars, geometryVars, trailVars, generatorVars,
                  pageVars, bloomVars>>
vars == <<sceneVars, springVars, gestureVars, trackerVars, interpVars, decayVars,
          sessionVars, geometryVars, extraVars>>

\* a ref that holds no array, and a ref that holds no buffer
Null == [tpl |-> "null", gen |-> 0 - 1]
NoBuffer == "null"
NoGap == 0 - 1

\* ---------------------------------------------------------------- bounds
MaxGen == 2        \* generate() calls after the initial one
MaxWait == 1       \* ticks that pass between the end of a frame and the next
MaxCallGap == 1    \* ticks that pass between the two clock calls of one frame
MaxSpringFrames == 20  \* idle frames followed after a morph trigger
MaxMorphs == 2     \* morph triggers
MaxCoord == 15     \* largest target coordinate (BASE_SCALE)
MaxEffects == 2    \* times the camera is switched on
MaxInflight == 1   \* results one Hands object has in flight
MaxCallbacks == 3  \* onResults calls that produce a GestureState
MaxUpdates == 3    \* calls of onUpdate by the HandTracker
MaxRetries == 1    \* clicks on the HandTracker's Retry button
MaxInitAge == 4    \* 5 s ticks followed while the detector initialises
MaxInterpCalls == 2  \* callbacks of the hook that are interpreted
MaxDecayCalls == 100 \* calls of processResults without hands in a row

\* ------------------------------------------------------ program constants
DtCap == 1             \* Math.min(clock.getDelta(), 0.05): 0.05 s
SpeedPerTick == 2      \* speed = 0.8: 0.8 * 0.05 / 0.02
ExplodeEnd == 75       \* exp.progress >= 1.5
ReformEnd == 40        \* exp.progress >= 0.8
ProgressOne == 50      \* Math.min(exp.progress, 1.0)
UOne == 400            \* uExplosion = 1.0
LerpSpeedPct == 6      \* LERP_SPEED = 0.06
DampingPct == 92       \* vel[i] *= 0.92

TransitionModes == {"morph", "explode", "vortex"}
Templates == {"cosmos", "heart"}
DefaultTemplate == "cosmos"
Colors == {"Cosmos Goud", "Nebula Blauw"}
DefaultColor == "Cosmos Goud"
NoMaterial == "null"

Min(a, b) == IF a < b THEN a ELSE b
Max(a, b) == IF a > b THEN a ELSE b

\* ------------------------------------------------------------------ arrays
\* template.generate(PARTICLE_COUNT, scale): a new array each call
Generate(templateId, gen) == [tpl |-> templateId, gen |-> gen]

IdleExplosion ==
    [active |-> FALSE, phase |-> "idle", progress |-> 0,
     burstVelocities |-> Null, pendingTarget |-> Null]

\* triggerTransition without the return that ends the morph branch
TriggerTransitionMorphFallsThrough(mode, newTarget) ==
    IF currentPositionsRef = NoBuffer
    THEN [target |-> targetPositionsRef, exp |-> explosionRef,
          isTransitioning |-> isTransitioning, burst |-> FALSE]
    ELSE [target |-> IF mode = "morph" THEN newTarget ELSE targetPositionsRef,
          exp |-> [active |-> TRUE, phase |-> "exploding", progress |-> 0,
                   burstVelocities |-> [tpl |-> "burst", gen |-> newTarget.gen],
                   pendingTarget |-> newTarget],
          isTransitioning |-> TRUE, burst |-> TRUE]

\* ------------------------------------------------------- triggerTransition
\* The value of (targetPositionsRef, explosionRef, isTransitioning) when
\* triggerTransition(newTarget) returns; mode is transitionModeRef.current.
TriggerTransition(mode, newTarget) ==
    IF currentPositionsRef = NoBuffer
    THEN [target |-> targetPositionsRef, exp |-> explosionRef,
          isTransitioning |-> isTransitioning, burst |-> FALSE]
    ELSE IF mode = "morph"
    THEN [target |-> newTarget, exp |-> explosionRef,
          isTransitioning |-> isTransitioning, burst |-> FALSE]
    ELSE [target |-> targetPositionsRef,
          exp |-> [active |-> TRUE, phase |-> "exploding", progress |-> 0,
                   burstVelocities |-> [tpl |-> "burst", gen |-> newTarget.gen], pendingTarget |-> newTarget],
          isTransitioning |-> TRUE, burst |-> TRUE]

\* PARTICLE_TEMPLATES.find(t => t.id === templateId): <<>> is undefined
FindTemplate(templateId) ==
    IF templateId \in Templates THEN <<templateId>> ELSE <<>>

\* the template the pool is created from:
\* (saved ? find(saved.selectedTemplate) : null) ?? PARTICLE_TEMPLATES[0]
InitTemplate(savedTemplate) ==
    IF FindTemplate(savedTemplate) # <<>> THEN FindTemplate(savedTemplate)[1]
    ELSE DefaultTemplate

\* generateTemplate(templateId, BASE_SCALE), as run by the template effect:
\* for an id the catalog does not have it returns at once; otherwise a new
\* array is generated and handed to triggerTransition.
GenerateTemplate(mode, templateId) ==
    IF FindTemplate(templateId) = <<>>
    THEN UNCHANGED <<nextGen, targetPositionsRef, explosionRef, isTransitioning,
                     retriggered>>
    ELSE LET r == TriggerTransition(mode, Generate(FindTemplate(templateId)[1], nextGen))
         IN  /\ nextGen <= MaxGen
             /\ nextGen' = nextGen + 1
             /\ targetPositionsRef' = r.target
             /\ explosionRef' = r.exp
             /\ isTransitioning' = r.isTransitioning
             /\ retriggered' = (retriggered \/ r.burst)

\* ------------------------------------------------ animate: the phase block
\* exp.progress += dt * speed
AdvanceProgress(progress, d) == progress + d * SpeedPerTick

\* the exploding intensity without the Math.min
ExplodingIntensityUnclamped(progress) == (UOne \div ProgressOne) * progress

\* uExplosion written by an exploding frame: Math.min(exp.progress, 1.0)
ExplodingIntensity(progress) == (UOne \div ProgressOne) * Min(progress, ProgressOne)

\* uExplosion written by a reforming frame:
\* Math.max(0, 1.0 - Math.min(exp.progress / 0.8, 1.0) * 1.5)
ReformingIntensity(progress) ==
    Max(0, UOne - ((3 * UOne) \div (2 * ReformEnd)) * Min(progress, ReformEnd))

\* the switch to reforming without the target swap
EnterReformingNoSwap(e, tgt) ==
    [exp |-> [e EXCEPT !.phase = "reforming", !.progress = 0],
     target |-> tgt]

\* exploding frame whose progress has reached 1.5
EnterReforming(e, tgt) ==
    [exp |-> [e EXCEPT !.phase = "reforming", !.progress = 0],
     target |-> IF e.pendingTarget # Null THEN e.pendingTarget ELSE tgt]

\* the end of reforming without phase = 'idle'
FinishReformingKeepsPhase(e) ==
    [e EXCEPT !.active = FALSE,
              !.burstVelocities = Null, !.pendingTarget = Null]

\* the end of reforming without pendingTarget = null
FinishReformingKeepsPending(e) ==
    [e EXCEPT !.active = FALSE, !.phase = "idle",
              !.burstVelocities = Null]

\* reforming frame whose progress has reached 0.8
FinishReforming(e) ==
    [e EXCEPT !.active = FALSE, !.phase = "idle",
              !.burstVelocities = Null, !.pendingTarget = Null]

\* The phase block of one animate frame with the given dt: the new
\* explosionRef, targetPositionsRef, uExplosion and isTransitioning.
StepTransition(e, tgt, u, transitioning, d) ==
    IF e.active
    THEN LET p == AdvanceProgress(e.progress, d)
             e1 == [e EXCEPT !.progress = p]
         IN  IF e.phase = "exploding"
             THEN IF p >= ExplodeEnd
                  THEN LET r == EnterReforming(e1, tgt)
                       IN  [exp |-> r.exp, target |-> r.target,
                            u |-> ExplodingIntensity(p),
                            isTransitioning |-> transitioning]
                  ELSE [exp |-> e1, target |-> tgt, u |-> ExplodingIntensity(p),
                        isTransitioning |-> transitioning]
             ELSE IF e.phase = "reforming"
             THEN IF p >= ReformEnd
                  THEN [exp |-> FinishReforming(e1), target |-> tgt, u |-> 0,
                        isTransitioning |-> FALSE]
                  ELSE [exp |-> e1, target |-> tgt, u |-> ReformingIntensity(p),
                        isTransitioning |-> transitioning]
             ELSE [exp |-> e1, target |-> tgt, u |-> u,
                   isTransitioning |-> transitioning]
    ELSE [exp |-> e, target |-> tgt, u |-> u,
          isTransitioning |-> transitioning]

\* ------------------------------------------------------------ THREE.Clock
\* clock.getElapsedTime() calls getDelta(): a clock that is not running is
\* started (oldTime = now), a running one moves oldTime to now.  The
\* clock.getDelta() that follows returns the time since that call.
ClockDelta(callGap) == callGap

\* const dt = Math.min(clock.getDelta(), 0.05)
FrameDt(callGap) == Min(ClockDelta(callGap), DtCap)

\* ------------------------------------------------- requestAnimationFrame
NextFrameId(id) == IF id = 1 THEN 2 ELSE 1

\* animationIdRef.current = requestAnimationFrame(animate)
RequestFrame(id) == NextFrameId(id)

\* Where an execution of animate can throw: nowhere, in its update before
\* the transition block, or in the renderer.render call that ends it.
FramePoints == {"none", "update", "render"}

\* an animate that asks for the next frame as its last statement
PendingAfterFrameRequestedLast(id, thrown) ==
    IF thrown = "none" THEN RequestFrame(id) ELSE 0

\* The frame request outstanding when an execution of animate ends: the
\* request is the first statement, ahead of everything that can throw.
PendingAfterFrame(id, thrown) == RequestFrame(id)

\* which executions of animate have thrown, after one more
FaultAfterFrame(fault, thrown) ==
    IF thrown # "none" THEN "last"
    ELSE IF fault = "none" THEN "none" ELSE "earlier"

\* One execution of animate(): wait ticks have passed since the previous
\* frame ended, callGap ticks pass between its two clock calls, and it
\* throws at the given point.
AnimateBody(wait, callGap, thrown) ==
    LET d == FrameDt(callGap)
        r == IF thrown = "update"
             THEN [exp |-> explosionRef, target |-> targetPositionsRef,
                   u |-> uExplosion, isTransitioning |-> isTransitioning]
             ELSE StepTransition(explosionRef, targetPositionsRef, uExplosion,
                                 isTransitioning, d)
    IN  /\ animationIdRef' = RequestFrame(animationIdRef)
        /\ pendingFrame' = PendingAfterFrame(animationIdRef, thrown)
        /\ clockRunning' = TRUE
        /\ dt' = d
        /\ frameGap' = IF clockRunning THEN sinceFrame + wait ELSE NoGap
        /\ sinceFrame' = callGap
        /\ explosionRef' = r.exp
        /\ targetPositionsRef' = r.target
        /\ uExplosion' = r.u
        /\ isTransitioning' = r.isTransitioning
        /\ retriggered' = IF thrown = "update" THEN retriggered ELSE FALSE
        /\ frameFault' = FaultAfterFrame(frameFault, thrown)

\* ------------------------------------------------------- idle spring step
\* x * num / den, rounded to the nearest 1/1000
MulRound(x, num, den) == (2 * x * num + den) \div (2 * den)

\* the spring with the velocity kept whole (no damping factor)
SpringCoordUndamped(cur, vel, scaledTarget) ==
    LET diff == scaledTarget - cur
        v1 == vel + MulRound(diff, LerpSpeedPct, 100)
    IN  [cur |-> cur + v1, vel |-> v1]

\* One coordinate of the loop at lines 700-706:
\*   diff = scaledTarget - current[i]; vel[i] += diff * LERP_SPEED;
\*   vel[i] *= 0.92; current[i] += vel[i]
SpringCoord(cur, vel, scaledTarget) ==
    LET diff == scaledTarget - cur
        v1 == vel + MulRound(diff, LerpSpeedPct, 100)
        v2 == MulRound(v1, DampingPct, 100)
    IN  [cur |-> cur + v2, vel |-> v2]

\* scaledTarget = target[i] * gestureScale + offsets[i % 3]
ScaledTarget(t, gestureScale, offset) == MulRound(t, gestureScale, 1000) + offset

Coords == 1..3
Dist2(a, b) ==
    (a[1] - b[1]) * (a[1] - b[1]) + (a[2] - b[2]) * (a[2] - b[2])
        + (a[3] - b[3]) * (a[3] - b[3])
Zero3 == <<0, 0, 0>>

\* the positions the templates put the particle at, in 1/1000
SpringTargets ==
    {<<0, 0, 0>>, <<MaxCoord * 1000, 0, 0>>, <<3000, 0 - 4000, 0>>,
     <<0 - 1000, 2000, MaxCoord * 1000>>}

\* An idle frame (exp.active false) with gesture scale 1 and zero offset.
IdleSpringFrame ==
    /\ springFrames < MaxSpringFrames
    /\ LET r == [i \in Coords |->
                   SpringCoord(current[i], velocity[i],
                               ScaledTarget(target[i], 1000, 0))]
       IN  /\ current' = [i \in Coords |-> r[i].cur]
           /\ velocity' = [i \in Coords |-> r[i].vel]
    /\ springFrames' = springFrames + 1
    /\ UNCHANGED <<target, startDist2, fromRest, morphs>>
    /\ UNCHANGED otherThanSpring

\* triggerTransition in morph mode: targetPositionsRef.current = newTarget
MorphTrigger(newTarget) ==
    /\ morphs < MaxMorphs
    /\ newTarget # target
    /\ target' = newTarget
    /\ morphs' = morphs + 1
    /\ springFrames' = 0
    /\ startDist2' = Dist2(current, newTarget)
    /\ fromRest' = (velocity = Zero3)
    /\ UNCHANGED <<current, velocity>>
    /\ UNCHANGED otherThanSpring

\* the particle at rest on its target
SpringSettled(t) ==
    /\ current = t
    /\ velocity = Zero3
    /\ target = t
    /\ springFrames = 0
    /\ startDist2 = 0
    /\ fromRest = TRUE
    /\ morphs = 0

SpringParked == SpringSettled(Zero3)

\* --------------------------------------------------------- useHandGesture
Runs == 1..MaxEffects

\* DEFAULT_STATE: seq numbers the callback that built the state (0: none)
DefaultState == [seq |-> 0, handsDetected |-> 0, isActive |-> FALSE]

\* newState of the callback numbered seq that saw h hands: every field is
\* computed and the object is built before it is stored
NewState(seq, h) == [seq |-> seq, handsDetected |-> h, isActive |-> TRUE]

\* a callback that stores the state only when it saw a hand
WriteDataRefOnlyWithHands(cell, newState) ==
    IF newState.handsDetected = 0 THEN cell ELSE newState

\* dataRef.current = newState
WriteDataRef(cell, newState) == newState

\* const g = gestureDataRef.current
ReadDataRef(cell) == cell

\* cleanup(): the camera in cameraRef stopped, the tracks of the stream in
\* streamRef stopped, Hands closed, the refs cleared.  Camera.stop() stops the
\* tracks of the stream the camera has obtained; it does nothing for a camera
\* whose start() has not resolved yet.
CleanupCameraOn ==
    [r \in Runs |-> IF r = cameraRef \/ r = hookStreamRef THEN FALSE ELSE cameraOn[r]]

\* The flag check at the top of the onResults callback of run r.
PassesFlag(r) == isMounted[r]

\* The camera is switched on: the effect runs with enabled = true.
EnableCamera ==
    /\ hookMounted
    /\ ~enabled
    /\ effectRuns < MaxEffects
    /\ enabled' = TRUE
    /\ effectRuns' = effectRuns + 1
    /\ isMounted' = [isMounted EXCEPT ![effectRuns + 1] = TRUE]
    /\ initPc' = [initPc EXCEPT ![effectRuns + 1] = "importing"]
    /\ initAge' = 0
    /\ UNCHANGED <<hookMounted, cameraOn, handsRef, cameraRef, inflight, callbacks,
                   dataRef, gesture, smoothedRef, lastNewState, frameG, gFrame,
                   hookStreamRef>>
    /\ UNCHANGED otherThanGesture

\* The camera is switched off: the cleanup of the last run (isMounted =
\* false; cleanup()), then the effect with enabled = false (cleanup();
\* setGesture(prev => ({...prev, isActive: false}))).
DisableCamera ==
    /\ hookMounted
    /\ enabled
    /\ enabled' = FALSE
    /\ isMounted' = [isMounted EXCEPT ![effectRuns] = FALSE]
    /\ cameraOn' = CleanupCameraOn
    /\ cameraRef' = 0
    /\ handsRef' = 0
    /\ hookStreamRef' = 0
    /\ gesture' = [gesture EXCEPT !.isActive = FALSE]
    /\ UNCHANGED <<hookMounted, effectRuns, initPc, inflight, callbacks, dataRef,
                   smoothedRef, lastNewState, frameG, gFrame, initAge>>
    /\ UNCHANGED otherThanGesture

\* The component unmounts: the cleanup of the last run, if the camera was on.
UnmountHook ==
    /\ hookMounted
    /\ hookMounted' = FALSE
    /\ IF enabled
       THEN /\ isMounted' = [isMounted EXCEPT ![effectRuns] = FALSE]
            /\ cameraOn' = CleanupCameraOn
            /\ cameraRef' = 0
            /\ handsRef' = 0
            /\ hookStreamRef' = 0
       ELSE UNCHANGED <<isMounted, cameraOn, cameraRef, handsRef, hookStreamRef>>
    /\ UNCHANGED <<enabled, effectRuns, initPc, inflight, callbacks, dataRef, gesture,
                   smoothedRef, lastNewState, frameG, gFrame, initAge>>
    /\ UNCHANGED otherThanGesture

\* initHandDetection of run r resumes after the two imports: it returns when
\* the flag is down, else creates the video, the Hands object (onResults
\* registered, handsRef set) and the Camera (cameraRef set) and awaits
\* camera.start().
InitAfterImports(r) ==
    /\ initPc[r] = "importing"
    /\ IF isMounted[r]
       THEN /\ initPc' = [initPc EXCEPT ![r] = "starting"]
            /\ handsRef' = r
            /\ cameraRef' = r
       ELSE /\ initPc' = [initPc EXCEPT ![r] = "returned"]
            /\ UNCHANGED <<handsRef, cameraRef>>
    /\ UNCHANGED <<enabled, hookMounted, effectRuns, isMounted, cameraOn, inflight,
                   callbacks, dataRef, gesture, smoothedRef, lastNewState, frameG,
                   gFrame, hookStreamRef, initAge>>
    /\ UNCHANGED otherThanGesture

\* camera.start() of run r settles: resolved, the camera delivers frames,
\* the stream is stored in streamRef (whatever the flag says) and a mounted
\* run sets isActive; rejected, the catch block clears isActive.
InitAfterStart(r, resolved) ==
    /\ initPc[r] = "starting"
    /\ initPc' = [initPc EXCEPT ![r] = IF resolved THEN "started" ELSE "failed"]
    /\ cameraOn' = [cameraOn EXCEPT ![r] = resolved]
    /\ gesture' = IF isMounted[r]
                  THEN [gesture EXCEPT !.isActive = resolved]
                  ELSE gesture
    /\ hookStreamRef' = IF resolved THEN r ELSE hookStreamRef
    /\ UNCHANGED <<enabled, hookMounted, effectRuns, isMounted, handsRef, cameraRef,
                   inflight, callbacks, dataRef, smoothedRef, lastNewState, frameG,
                   gFrame, initAge>>
    /\ UNCHANGED otherThanGesture

\* onFrame of run r's Camera: if (handsRef.current) await
\* handsRef.current.send({image: video})
CameraFrame(r) ==
    /\ cameraOn[r]
    /\ handsRef # 0
    /\ inflight[handsRef] < MaxInflight
    /\ inflight' = [inflight EXCEPT ![handsRef] = @ + 1]
    /\ UNCHANGED <<enabled, hookMounted, effectRuns, isMounted, initPc, cameraOn,
                   handsRef, cameraRef, callbacks, dataRef, gesture, smoothedRef,
                   lastNewState, frameG, gFrame, hookStreamRef, initAge>>
    /\ UNCHANGED otherThanGesture

\* The Hands object of run r delivers a result with h hands to the onResults
\* callback registered by that run.
OnResults(r, h) ==
    /\ inflight[r] > 0
    /\ inflight' = [inflight EXCEPT ![r] = @ - 1]
    /\ IF PassesFlag(r)
       THEN /\ callbacks < MaxCallbacks
            /\ callbacks' = callbacks + 1
            /\ smoothedRef' = callbacks + 1
            /\ lastNewState' = NewState(callbacks + 1, h)
            /\ dataRef' = WriteDataRef(dataRef, NewState(callbacks + 1, h))
            /\ gesture' = NewState(callbacks + 1, h)
       ELSE UNCHANGED <<callbacks, smoothedRef, lastNewState, dataRef, gesture>>
    /\ UNCHANGED <<enabled, hookMounted, effectRuns, isMounted, initPc, cameraOn,
                   handsRef, cameraRef, frameG, gFrame, hookStreamRef, initAge>>
    /\ UNCHANGED otherThanGesture

\* The gesture block of an animate frame: g = gestureDataRef.current, whose
\* fields drive gestureScale and the offset.
GestureFrame ==
    /\ frameG' = ReadDataRef(dataRef)
    /\ gFrame' = 1 - gFrame
    /\ UNCHANGED <<enabled, hookMounted, effectRuns, isMounted, initPc, cameraOn,
                   handsRef, cameraRef, inflight, callbacks, dataRef, gesture,
                   smoothedRef, lastNewState, hookStreamRef, initAge>>
    /\ UNCHANGED otherThanGesture

\* The camera indicator of the control panel: "Initialiseren..." while the
\* camera is switched on and gesture.isActive is false, "Actief" otherwise.
Initializing == enabled /\ ~gesture.isActive

\* Five seconds pass while the indicator shows "Initialiseren...".  No timer
\* of the hook or of the component runs in that time: the 15 s loadingTimeout
\* of the scene setup is cleared in the same synchronous run that sets it.
InitClockTick ==
    /\ hookMounted
    /\ Initializing
    /\ initAge < MaxInitAge
    /\ initAge' = initAge + 1
    /\ UNCHANGED <<enabled, hookMounted, effectRuns, isMounted, initPc, cameraOn,
                   handsRef, cameraRef, inflight, callbacks, dataRef, gesture,
                   smoothedRef, lastNewState, frameG, gFrame, hookStreamRef>>
    /\ UNCHANGED otherThanGesture

\* the hook before the camera is first switched on
GestureParked ==
    /\ enabled = FALSE
    /\ hookMounted = TRUE
    /\ effectRuns = 0
    /\ isMounted = [r \in Runs |-> FALSE]
    /\ initPc = [r \in Runs |-> "none"]
    /\ cameraOn = [r \in Runs |-> FALSE]
    /\ handsRef = 0
    /\ cameraRef = 0
    /\ inflight = [r \in Runs |-> 0]
    /\ callbacks = 0
    /\ dataRef = DefaultState
    /\ gesture = DefaultState
    /\ smoothedRef = 0
    /\ lastNewState = DefaultState
    /\ frameG = DefaultState
    /\ gFrame = 0
    /\ hookStreamRef = 0
    /\ initAge = 0

\* 15000 ms, in ticks of 5 s
InitTimeoutTicks == 3

\* ------------------------------------------------------------ HandTracker
\* Values of smoothedRef are in 1/1000000, fine enough for a hundred decays
\* in a row to stay above the rounding; centerY is updated exactly as
\* centerX and is left out.
TensionOne == 1000000
CenterDefault == 500000
DecayPctPart003 == 92
SmoothPctPart003 == 70
DecayPct == 95
RecenterPct == 5
SmoothPct == 35

\* what calculateTension and the centre of the landmarks come to for a result
RawTensions == {0, TensionOne}
RawCenters == {100000, 900000}

\* processResults of part_003: the new smoothedRef for a result with h hands
ProcessResultsPart003(tension, centerX, h, rawTension, rawCenterX) ==
    IF h = 0
    THEN [tension |-> MulRound(tension, DecayPctPart003, 100),
          centerX |-> centerX + MulRound(CenterDefault - centerX, RecenterPct, 100)]
    ELSE [tension |-> tension + MulRound(rawTension - tension, SmoothPctPart003, 100),
          centerX |-> centerX + MulRound(rawCenterX - centerX, SmoothPctPart003, 100)]

ProcessResultsHoldsWithoutHands(tension, centerX, h, rawTension, rawCenterX) ==
    IF h = 0
    THEN [tension |-> tension, centerX |-> centerX]
    ELSE [tension |-> tension + MulRound(rawTension - tension, SmoothPct, 100),
          centerX |-> centerX + MulRound(rawCenterX - centerX, SmoothPct, 100)]

\* processResults: the new smoothedRef for a result with h hands
ProcessResults(tension, centerX, h, rawTension, rawCenterX) ==
    IF h = 0
    THEN [tension |-> MulRound(tension, DecayPct, 100),
          centerX |-> centerX + MulRound(CenterDefault - centerX, RecenterPct, 100)]
    ELSE [tension |-> tension + MulRound(rawTension - tension, SmoothPct, 100),
          centerX |-> centerX + MulRound(rawCenterX - centerX, SmoothPct, 100)]

\* What a detection callback does with a result once it runs processResults:
\* smoothedRef updated, onUpdate called.
DeliverToProcessResults(h, rawTension, rawCenterX) ==
    /\ updates < MaxUpdates
    /\ smoothedTension' =
           ProcessResults(smoothedTension, smoothedCenterX, h, rawTension, rawCenterX).tension
    /\ smoothedCenterX' =
           ProcessResults(smoothedTension, smoothedCenterX, h, rawTension, rawCenterX).centerX
    /\ updates' = updates + 1

\* startTracking resumes after the tasks-vision import and getUserMedia:
\* denied, the catch block sets the error; granted, the stream is stored.
TrackingGotMedia(tasks, granted) ==
    /\ trackingPc = "starting"
    /\ useTasksVision' = tasks
    /\ IF granted
       THEN /\ trackingPc' = "loading"
            /\ streamRef' = TRUE
            /\ streamLive' = TRUE
       ELSE /\ trackingPc' = "failed"
            /\ UNCHANGED <<streamRef, streamLive>>
    /\ UNCHANGED <<trackerMounted, handLandmarkerRef, landmarkerClosed, detectPending,
                   cameraLoop, handsInflight, smoothedTension, smoothedCenterX, updates,
                   retries>>
    /\ UNCHANGED otherThanTracker

\* startTracking resumes after the detector is loaded. tasks-vision: the
\* landmarker is stored and the detect loop requested. Fallback: the Hands
\* object is stored, the Camera is created on videoRef.current and started,
\* which fails when the video element is gone.
TrackingLoaded(loaded) ==
    /\ trackingPc = "loading"
    /\ IF ~loaded
       THEN /\ trackingPc' = "failed"
            /\ UNCHANGED <<handLandmarkerRef, landmarkerClosed, detectPending, cameraLoop>>
       ELSE IF useTasksVision
       THEN /\ trackingPc' = "detecting"
            /\ handLandmarkerRef' = "landmarker"
            /\ landmarkerClosed' = FALSE
            /\ detectPending' = TRUE
            /\ UNCHANGED cameraLoop
       ELSE /\ handLandmarkerRef' = "hands"
            /\ landmarkerClosed' = FALSE
            /\ trackingPc' = IF trackerMounted THEN "detecting" ELSE "failed"
            /\ cameraLoop' = trackerMounted
            /\ UNCHANGED detectPending
    /\ UNCHANGED <<trackerMounted, useTasksVision, streamRef, streamLive, handsInflight,
                   smoothedTension, smoothedCenterX, updates, retries>>
    /\ UNCHANGED otherThanTracker

\* detect, the tasks-vision path's frame callback: returns when the video
\* element or the landmarker is gone; asks for the next frame when the video
\* is not ready; else detects, runs processResults and asks for the next frame.
Detect(ready, h, rawTension, rawCenterX) ==
    /\ detectPending
    /\ IF ~trackerMounted \/ handLandmarkerRef = "null"
       THEN /\ detectPending' = FALSE
            /\ UNCHANGED <<smoothedTension, smoothedCenterX, updates>>
       ELSE IF ~ready
       THEN UNCHANGED <<detectPending, smoothedTension, smoothedCenterX, updates>>
       ELSE /\ DeliverToProcessResults(h, rawTension, rawCenterX)
            /\ UNCHANGED detectPending
    /\ UNCHANGED <<trackerMounted, trackingPc, useTasksVision, streamRef, streamLive,
                   handLandmarkerRef, landmarkerClosed, cameraLoop, handsInflight, retries>>
    /\ UNCHANGED otherThanTracker

\* onFrame of the fallback Camera: if (handLandmarkerRef.current &&
\* videoRef.current) await handLandmarkerRef.current.send(...)
TrackerCameraFrame ==
    /\ cameraLoop
    /\ handLandmarkerRef # "null"
    /\ trackerMounted
    /\ handsInflight < MaxInflight
    /\ handsInflight' = handsInflight + 1
    /\ UNCHANGED <<trackerMounted, trackingPc, useTasksVision, streamRef, streamLive,
                   handLandmarkerRef, landmarkerClosed, detectPending, cameraLoop,
                   smoothedTension, smoothedCenterX, updates, retries>>
    /\ UNCHANGED otherThanTracker

\* The fallback Hands object delivers a result to hands.onResults, which
\* passes it to processResults without a check of its own.
HandsOnResults(h, rawTension, rawCenterX) ==
    /\ handsInflight > 0
    /\ handsInflight' = handsInflight - 1
    /\ DeliverToProcessResults(h, rawTension, rawCenterX)
    /\ UNCHANGED <<trackerMounted, trackingPc, useTasksVision, streamRef, streamLive,
                   handLandmarkerRef, landmarkerClosed, detectPending, cameraLoop, retries>>
    /\ UNCHANGED otherThanTracker

\* The Retry button of the error overlay: startTracking again.
RetryTracking ==
    /\ trackerMounted
    /\ trackingPc = "failed"
    /\ retries < MaxRetries
    /\ retries' = retries + 1
    /\ trackingPc' = "starting"
    /\ UNCHANGED <<trackerMounted, useTasksVision, streamRef, streamLive,
                   handLandmarkerRef, landmarkerClosed, detectPending, cameraLoop,
                   handsInflight, smoothedTension, smoothedCenterX, updates>>
    /\ UNCHANGED otherThanTracker

\* The effect's cleanup: the outstanding detect frame cancelled, the detector
\* closed, the stream's tracks stopped. No ref is cleared and no flag is set;
\* the fallback Camera is a local of startTracking and is not stopped.
UnmountTracker ==
    /\ trackerMounted
    /\ trackerMounted' = FALSE
    /\ detectPending' = FALSE
    /\ landmarkerClosed' = (handLandmarkerRef # "null")
    /\ streamLive' = IF streamRef THEN FALSE ELSE streamLive
    /\ UNCHANGED <<trackingPc, useTasksVision, streamRef, handLandmarkerRef, cameraLoop,
                   handsInflight, smoothedTension, smoothedCenterX, updates, retries>>
    /\ UNCHANGED otherThanTracker

\* the tracker just mounted: the effect has called startTracking
TrackerParked ==
    /\ trackerMounted = TRUE
    /\ trackingPc = "starting"
    /\ useTasksVision = FALSE
    /\ streamRef = FALSE
    /\ streamLive = FALSE
    /\ handLandmarkerRef = "null"
    /\ landmarkerClosed = FALSE
    /\ detectPending = FALSE
    /\ cameraLoop = FALSE
    /\ handsInflight = 0
    /\ smoothedTension = 0
    /\ smoothedCenterX = CenterDefault
    /\ updates = 0
    /\ retries = 0

\* ---- processResults called again and again without hands
TrackerVariants == {"HandTracker", "part_003"}
DecayStartTensions == {TensionOne, 500000, 250000}
DecayStartCenters == {100000, 400000, CenterDefault, 900000}

DecayCall ==
    /\ updates < MaxDecayCalls
    /\ LET s == IF decayVariant = "HandTracker"
                THEN ProcessResults(smoothedTension, smoothedCenterX, 0, 0, 0)
                ELSE ProcessResultsPart003(smoothedTension, smoothedCenterX, 0, 0, 0)
       IN  /\ smoothedTension' = s.tension
           /\ smoothedCenterX' = s.centerX
    /\ updates' = updates + 1
    /\ UNCHANGED <<trackerMounted, trackingPc, useTasksVision, streamRef, streamLive,
                   handLandmarkerRef, landmarkerClosed, detectPending, cameraLoop,
                   handsInflight, retries>>
    /\ UNCHANGED otherThanTracker

\* the tracker with smoothedRef at tension t and centerX x
TrackerSmoothedAt(t, x) ==
    /\ trackerMounted = TRUE
    /\ trackingPc = "detecting"
    /\ useTasksVision = TRUE
    /\ streamRef = TRUE
    /\ streamLive = TRUE
    /\ handLandmarkerRef = "landmarker"
    /\ landmarkerClosed = FALSE
    /\ detectPending = TRUE
    /\ cameraLoop = FALSE
    /\ handsInflight = 0
    /\ smoothedTension = t
    /\ smoothedCenterX = x
    /\ updates = 0
    /\ retries = 0

DecayParked ==
    /\ decayVariant = "HandTracker"
    /\ startTension = 0
    /\ startCenterX = CenterDefault

\* ------------------------------------------------------- geometryFactory
ShapeTypes == {"sphere", "heart", "flower", "saturn", "buddha", "fireworks", "cluster"}

\* the types generateGeometry is given: three of the catalog and two that
\* are not in it
ShapeInputs == {"sphere", "heart", "cluster", "globular", "spiral"}

\* generateGeometry(type, count): the shape whose generator fills base
GenerateGeometry(type) == IF type \in ShapeTypes THEN type ELSE "sphere"

\* ParticleSystem is given a shape and generates its target positions
ShapeRequest(type) ==
    /\ type # shape
    /\ shape' = type
    /\ targetPos' = GenerateGeometry(type)
    /\ UNCHANGED otherThanGeometry

GeometryParked ==
    /\ shape = "none"
    /\ targetPos = "none"

\* ----------------------------------------------------------------- session
\* A JSON value is its type with its text; a property that is absent reads
\* as undefined.
Str(v) == [t |-> "string", v |-> v]
Num(v) == [t |-> "number", v |-> v]
Bool(v) == [t |-> "boolean", v |-> v]
Arr(v) == [t |-> "array", v |-> v]
Undef == [t |-> "undefined", v |-> ""]

\* !x
Falsy(x) ==
    \/ x.t \in {"undefined", "null"}
    \/ x.t = "string" /\ x.v = ""
    \/ x.t = "number" /\ x.v = "0"
    \/ x.t = "boolean" /\ x.v = "false"

\* selectedColor: an object with name, hex and rgb, or something else
Color(t, name, hex, rgb) == [t |-> t, name |-> name, hex |-> hex, rgb |-> rgb]

\* PRESET_COLORS[0]
PresetColor == Color("object", Str("Cosmos Goud"), Str("#FFD700"), Arr("numbers"))

NoSession == <<>>

TemplateValues == {Str(t) : t \in Templates} \cup {Str("spiral"), Num("3"), Undef}
ColorValues ==
    {PresetColor,
     Color("object", Undef, Str("#FFD700"), Arr("numbers")),
     Color("object", Str("Cosmos Goud"), Num("1"), Arr("numbers")),
     Color("object", Str("Cosmos Goud"), Str("#FFD700"), Arr("strings")),
     Color("object", Str("Cosmos Goud"), Str("#FFD700"), Str("1,0.84,0")),
     Color("object", Str("Cosmos Goud"), Undef, Arr("numbers")),
     Color("string", Undef, Undef, Undef),
     Color("undefined", Undef, Undef, Undef)}
CustomColorValues == {Str("#FFD700"), Num("0"), Undef}
ModeValues == {Str(m) : m \in TransitionModes} \cup {Str("spin"), Undef}
PanelValues == {Bool("true"), Bool("false"), Str("true"), Undef}

\* what JSON.parse gives for an object
ObjectBlobs ==
    [kind : {"object"}, selectedTemplate : TemplateValues, selectedColor : ColorValues,
     customColor : CustomColorValues, transitionMode : ModeValues,
     showPanel : PanelValues]

\* nothing stored, the empty string, text that is not JSON, the JSON null
\* and a JSON number
OtherBlob(kind) ==
    [kind |-> kind, selectedTemplate |-> Undef,
     selectedColor |-> Color("undefined", Undef, Undef, Undef),
     customColor |-> Undef, transitionMode |-> Undef, showPanel |-> Undef]

Blobs == ObjectBlobs \cup {OtherBlob(k) : k \in {"absent", "empty", "invalid", "null", "number"}}

\* the try block of loadSession: "throw" is an exception that reaches the
\* catch, <<>> is return null
LoadSessionTry(data) ==
    IF data.kind \in {"absent", "empty"} THEN [out |-> "return", session |-> NoSession]
    ELSE IF data.kind = "invalid" THEN [out |-> "throw", session |-> NoSession]
    ELSE IF data.kind = "null" THEN [out |-> "throw", session |-> NoSession]
    ELSE IF data.selectedTemplate.t # "string" THEN [out |-> "return", session |-> NoSession]
    ELSE IF Falsy(data.selectedColor.hex) \/ data.selectedColor.rgb.t # "array"
         THEN [out |-> "return", session |-> NoSession]
    ELSE IF data.customColor.t # "string" THEN [out |-> "return", session |-> NoSession]
    ELSE IF ~(data.transitionMode.t = "string" /\ data.transitionMode.v \in TransitionModes)
         THEN [out |-> "return", session |-> NoSession]
    ELSE IF data.showPanel.t # "boolean" THEN [out |-> "return", session |-> NoSession]
    ELSE IF data.selectedTemplate.v \notin Templates
         THEN [out |-> "return", session |-> NoSession]
    ELSE [out |-> "return", session |-> <<data>>]

\* loadSession: the catch block returns null
LoadSession(data) ==
    [threw |-> FALSE, session |-> LoadSessionTry(data).session]

\* savedSessionRef.current?.x ?? default, for the five preference states
InitialPrefs(saved) ==
    IF saved = NoSession
    THEN [selectedTemplate |-> Str(DefaultTemplate), selectedColor |-> PresetColor,
          customColor |-> Str("#FFD700"), showPanel |-> Bool("true"),
          transitionMode |-> Str("explode")]
    ELSE [selectedTemplate |-> saved[1].selectedTemplate,
          selectedColor |-> saved[1].selectedColor,
          customColor |-> saved[1].customColor, showPanel |-> saved[1].showPanel,
          transitionMode |-> saved[1].transitionMode]

\* the first render: loadSession() into savedSessionRef, then the useState
\* initialisers
ReadSession ==
    /\ sessionPc = "stored"
    /\ sessionPc' = "loaded"
    /\ savedSessionRef' = LoadSession(storage).session
    /\ loadThrew' = LoadSession(storage).threw
    /\ prefs' = InitialPrefs(savedSessionRef')
    /\ UNCHANGED storage
    /\ UNCHANGED otherThanSession

\* a session with blob data stored and not yet read
SessionStored(data) ==
    /\ storage = data
    /\ sessionPc = "stored"
    /\ savedSessionRef = NoSession
    /\ loadThrew = FALSE
    /\ prefs = InitialPrefs(NoSession)

\* nothing stored
SessionParked == SessionStored(OtherBlob("absent"))

\* ---------------------------------------------------- gesture interpreter
\* Landmark coordinates are in 1/10000 of the image, openness and tension
\* in 1/1000.  A hand is its 21 landmarks; a hand reference that is null is
\* the empty sequence, one that is set is the hand in a sequence.
CenterHalf == 5000       \* centerX: 0.5, centerY: 0.5
HookSmoothPct == 35      \* const smooth = 0.35
PalmEpsilon == 10        \* palmSize < 0.001
RatioOne == 1000         \* ratio - 1.0
OpennessOne == 1000      \* Math.min(1, ...): openness 1, tension 1
RatioSpanTenths == 12    \* / 1.2

NoHand == <<>>
Fingers == 1..5
FingerTips == <<4, 8, 12, 16, 20>>
FingerBases == <<2, 5, 9, 13, 17>>
MiddleMcp == 9

RECURSIVE ISqrtFrom(_, _)
ISqrtFrom(n, r) == IF r * r <= n THEN r ELSE ISqrtFrom(n, (r + n \div r) \div 2)

\* Math.sqrt, rounded down
ISqrt(n) == IF n = 0 THEN 0 ELSE ISqrtFrom(n, Min(n, 20000))

LandmarkDist(a, b) ==
    ISqrt((a[1] - b[1]) * (a[1] - b[1]) + (a[2] - b[2]) * (a[2] - b[2])
          + (a[3] - b[3]) * (a[3] - b[3]))

Ratio(tipDist, baseDist) ==
    IF baseDist > 0 THEN (tipDist * RatioOne) \div baseDist ELSE 0

FingerOpenness(landmarks, f) ==
    LET wrist == landmarks[0]
        tipDist == LandmarkDist(landmarks[FingerTips[f]], wrist)
        baseDist == LandmarkDist(landmarks[FingerBases[f]], wrist)
        ratio == Ratio(tipDist, baseDist)
    IN  Max(0, Min(OpennessOne, ((ratio - RatioOne) * 10) \div RatioSpanTenths))

TotalOpenness(landmarks) ==
    FingerOpenness(landmarks, 1) + FingerOpenness(landmarks, 2)
    + FingerOpenness(landmarks, 3) + FingerOpenness(landmarks, 4)
    + FingerOpenness(landmarks, 5)

\* useHandGesture.ts calculateFingerOpenness
CalculateFingerOpenness(landmarks) == TotalOpenness(landmarks) \div 5

PalmSize(landmarks) == LandmarkDist(landmarks[MiddleMcp], landmarks[0])

\* HandTracker.tsx calculateTension
CalculateTension(landmarks) ==
    IF PalmSize(landmarks) < PalmEpsilon
    THEN 0
    ELSE Max(0, Min(OpennessOne, OpennessOne - TotalOpenness(landmarks) \div 5))

\* getHandCenter: the middle of the wrist and the middle finger's base
GetHandCenter(landmarks) ==
    [x |-> (landmarks[0][1] + landmarks[MiddleMcp][1]) \div 2,
     y |-> (landmarks[0][2] + landmarks[MiddleMcp][2]) \div 2]

HookTensionUninverted(averageOpenness) ==
    Max(0, Min(OpennessOne, averageOpenness))

\* const tension = Math.max(0, Math.min(1, 1 - averageOpenness))
HookTension(averageOpenness) ==
    Max(0, Min(OpennessOne, OpennessOne - averageOpenness))

\* s.x = s.x + (x - s.x) * smooth
HookSmooth(s, x) == s + MulRound(x - s, HookSmoothPct, 100)

RECURSIVE LastHand(_, _, _)
\* the loop over multiHandLandmarks: a later hand of the side replaces an
\* earlier one; the label 'Left' is the right hand
LastHand(results, i, right) ==
    IF i = 0 THEN NoHand
    ELSE IF (results[i].label = "Left") = right THEN <<results[i].landmarks>>
    ELSE LastHand(results, i - 1, right)

\* ---- the hands the interpreter is given
FingerDirs == <<<<5, 0, 0>>, <<3, 4, 0>>, <<0, 5, 0>>, <<0 - 3, 4, 0>>, <<0 - 4, 3, 0>>>>

\* the hand with the wrist at w whose finger f has its base palm[f] and its
\* tip reach[f] steps of length 5 from the wrist
Hand(w, palm, reach) ==
    [i \in 0..20 |->
        IF \E f \in Fingers : FingerTips[f] = i
        THEN LET f == CHOOSE g \in Fingers : FingerTips[g] = i
             IN  <<w[1] + reach[f] * FingerDirs[f][1], w[2] + reach[f] * FingerDirs[f][2],
                   w[3] + reach[f] * FingerDirs[f][3]>>
        ELSE IF \E f \in Fingers : FingerBases[f] = i
        THEN LET f == CHOOSE g \in Fingers : FingerBases[g] = i
             IN  <<w[1] + palm[f] * FingerDirs[f][1], w[2] + palm[f] * FingerDirs[f][2],
                   w[3] + palm[f] * FingerDirs[f][3]>>
        ELSE w]

WristA == <<2000, 4000, 0>>
WristB == <<7000, 6000, 0>>
Wrists == {WristA, WristB}

\* open hand, half open hand, fist, a barely visible open hand (palm size
\* 0.0005), and an open hand whose middle finger base is on the wrist
HandShapes ==
    {[palm |-> <<200, 200, 200, 200, 200>>, reach |-> <<440, 440, 440, 440, 440>>],
     [palm |-> <<200, 200, 200, 200, 200>>, reach |-> <<320, 320, 320, 320, 320>>],
     [palm |-> <<200, 200, 200, 200, 200>>, reach |-> <<200, 200, 200, 200, 200>>],
     [palm |-> <<1, 1, 1, 1, 1>>, reach |-> <<2, 2, 2, 2, 2>>],
     [palm |-> <<200, 200, 0, 200, 200>>, reach |-> <<440, 440, 440, 440, 440>>]}

HandInputs == {Hand(w, sh.palm, sh.reach) : w \in Wrists, sh \in HandShapes}

Detections == [landmarks : HandInputs, label : {"Left", "Right"}]

\* the two functions of the hook and the one of the tracker on each of
\* these hands
OpennessOfHand == [h \in HandInputs |-> CalculateFingerOpenness(h)]
CenterOfHand == [h \in HandInputs |-> GetHandCenter(h)]
TensionOfHand == [h \in HandInputs |-> CalculateTension(h)]
PalmSizeOfHand == [h \in HandInputs |-> PalmSize(h)]

\* results.multiHandLandmarks with results.multiHandedness: no hand, one
\* hand, or a hand at WristA followed by a hand at WristB
ResultInputs ==
    {<<>>} \cup {<<d>> : d \in Detections}
           \cup {<<d1, d2>> : d1 \in {d \in Detections : d.landmarks[0] = WristA},
                              d2 \in {d \in Detections : d.landmarks[0] = WristB}}

\* DEFAULT_STATE
HookDefaultState ==
    [handsDetected |-> 0, averageOpenness |-> 0, tension |-> 0,
     centerX |-> CenterHalf, centerY |-> CenterHalf, isActive |-> FALSE]

\* the body of the hands.onResults callback once it is past the flag
HookCallback(results) ==
    /\ interpCalls < MaxInterpCalls
    /\ interpCalls' = interpCalls + 1
    /\ LET leftHand == LastHand(results, Len(results), FALSE)
           rightHand == LastHand(results, Len(results), TRUE)
           handsDetected == Len(results)
           leftOpenness == IF leftHand # NoHand
                           THEN OpennessOfHand[leftHand[1]] ELSE 0
           rightOpenness == IF rightHand # NoHand
                            THEN OpennessOfHand[rightHand[1]] ELSE 0
           center ==
               IF leftHand # NoHand /\ rightHand # NoHand
               THEN LET leftCenter == CenterOfHand[leftHand[1]]
                        rightCenter == CenterOfHand[rightHand[1]]
                    IN  [x |-> (leftCenter.x + rightCenter.x) \div 2,
                         y |-> (leftCenter.y + rightCenter.y) \div 2]
               ELSE IF leftHand # NoHand THEN CenterOfHand[leftHand[1]]
               ELSE IF rightHand # NoHand THEN CenterOfHand[rightHand[1]]
               ELSE [x |-> sCenterX, y |-> sCenterY]
           averageOpenness ==
               IF handsDetected > 0
               THEN (leftOpenness + rightOpenness) \div handsDetected
               ELSE 0
       IN  /\ sCenterX' = HookSmooth(sCenterX, center.x)
           /\ sCenterY' = HookSmooth(sCenterY, center.y)
           /\ produced' = [handsDetected |-> handsDetected,
                           averageOpenness |-> averageOpenness,
                           tension |-> HookTension(averageOpenness),
                           centerX |-> sCenterX', centerY |-> sCenterY',
                           isActive |-> TRUE]
    /\ UNCHANGED probe
    /\ UNCHANGED otherThanInterp

\* one hand given to calculateFingerOpenness and to calculateTension
InterpretHand(landmarks) ==
    /\ probe.hand = NoHand
    /\ probe' = [hand |-> <<landmarks>>,
                 openness |-> OpennessOfHand[landmarks],
                 tension |-> TensionOfHand[landmarks]]
    /\ UNCHANGED <<sCenterX, sCenterY, produced, interpCalls>>
    /\ UNCHANGED otherThanInterp

\* no callback yet
InterpParked ==
    /\ sCenterX = CenterHalf
    /\ sCenterY = CenterHalf
    /\ produced = HookDefaultState
    /\ interpCalls = 0
    /\ probe = [hand |-> NoHand, openness |-> 0, tension |-> 0]

\* ------------------------------------------------------------------ trail
TrailLength == 2         \* TRAIL_LENGTH
TrailEvery == 2          \* trailFrame % 2 === 0
TrailDecayPct == 65      \* trailAlpha[src] * 0.65
TrailAlphaMax == 500     \* Math.min(0.5, ...)
TrailAlphaGain == 4      \* speed * 4.0
Slots == 1..TrailLength

\* speed = sqrt(vx * vx + vy * vy + vz * vz)
Speed(vel) == ISqrt(vel[1] * vel[1] + vel[2] * vel[2] + vel[3] * vel[3])

ShiftedAlphaUndecayed(alpha) == alpha

\* the alpha a slot receives from the slot before it
ShiftedAlpha(alpha) == MulRound(alpha, TrailDecayPct, 100)

RECURSIVE ShiftPos(_, _)
\* for (t = TRAIL_LENGTH - 1; t > 0; t--) trailPos[t] = trailPos[t - 1]
ShiftPos(pos, t) ==
    IF t < 2 THEN pos ELSE ShiftPos([pos EXCEPT ![t] = pos[t - 1]], t - 1)

RECURSIVE ShiftAlpha(_, _)
\* for (t = TRAIL_LENGTH - 1; t > 0; t--) trailAlpha[t] = trailAlpha[t - 1] * 0.65
ShiftAlpha(alpha, t) ==
    IF t < 2 THEN alpha
    ELSE ShiftAlpha([alpha EXCEPT ![t] = ShiftedAlpha(alpha[t - 1])], t - 1)

WriteSlotZeroSkipped(pos, cur) == pos

\* trailPos[i3] = current[i3], ...
WriteSlotZero(pos, cur) == [pos EXCEPT ![1] = cur]

\* the trail block of animate, once trailFrame has been incremented to
\* frame: every second frame the history is shifted and slot 0 is written
TrailUpdate(frame, pos, alpha, cur, vel) ==
    IF frame % TrailEvery = 0
    THEN [pos |-> WriteSlotZero(ShiftPos(pos, TrailLength), cur),
          alpha |-> [ShiftAlpha(alpha, TrailLength) EXCEPT
                        ![1] = Min(TrailAlphaMax, Speed(vel) * TrailAlphaGain)]]
    ELSE [pos |-> pos, alpha |-> alpha]

\* An idle frame of animate with its trail block.
TrailFrame ==
    /\ springFrames < MaxSpringFrames
    /\ LET r == [i \in Coords |->
                   SpringCoord(current[i], velocity[i],
                               ScaledTarget(target[i], 1000, 0))]
           f == (trailFrame + 1) % TrailEvery
       IN  /\ current' = [i \in Coords |-> r[i].cur]
           /\ velocity' = [i \in Coords |-> r[i].vel]
           /\ trailFrame' = f
           /\ trailPos' = TrailUpdate(f, trailPos, trailAlpha, current', velocity').pos
           /\ trailAlpha' = TrailUpdate(f, trailPos, trailAlpha, current', velocity').alpha
    /\ springFrames' = springFrames + 1
    /\ UNCHANGED <<target, startDist2, fromRest, morphs>>
    /\ UNCHANGED otherThanTrail

\* the trail as the setup creates it: every slot at the initial position
\* with alpha 0
TrailAt(position) ==
    /\ trailFrame = 0
    /\ trailPos = [k \in Slots |-> position]
    /\ trailAlpha = [k \in Slots |-> 0]

TrailParked == TrailAt(Zero3)

\* ------------------------------------------------------------- generators
GeometryTrailLength == 5     \* TRAIL_LENGTH of geometryFactory.ts
CosmosCount == 100000        \* the particle count the core/halo tiers are counted for
MaxZeroDraws == 2            \* halo particles for which Math.random() is 0
GenCounts == {0, 1, 2, 3, 7, 10, 100, 1000}
\* 3 + Math.floor(Math.random() * 3)
BurstCounts == 3..5
\* values of Math.random(), 1/1000
Draws == {0, 100, 500, 999}
\* Math.pow(u, 1.2), 1/1000
Pow12 == [u \in Draws |-> CASE u = 0 -> 0 [] u = 100 -> 63 [] u = 500 -> 435
                            [] OTHER -> 999]
CosmosCorePct == 20          \* Math.floor(count * 0.2)
CosmosHaloFactor == 3        \* HALO_RADIUS = scale * 3
CosmosScale == 15            \* BASE_SCALE, the scale generate is called with
SaturnPlanetPct == 45        \* Math.floor(count * 0.45)
DnaHelixPct == 70            \* Math.floor(count * 0.7)
\* the weights of the sub-clusters of generateCluster, 1/100
ClusterWeights == <<30, 12, 10, 8, 8, 5>>
FilamentPct == 12            \* filamentShare

\* the indexes 0 .. n-1 of a loop for (i = 0; i < n; i++)
Upto(n) == 0..(n - 1)

\* Math.floor(count * pct / 100)
FloorPct(count, pct) == (count * pct) \div 100

\* The particle indexes a generator of particleTemplates.ts writes.
TemplateHeart(count) == Upto(count)

TemplateSaturn(count) ==
    LET planetCount == FloorPct(count, SaturnPlanetPct)
        ringCount == count - planetCount
    IN  Upto(planetCount) \cup {planetCount + i : i \in Upto(ringCount)}

TemplateDNA(count) ==
    LET helixCount == FloorPct(count, DnaHelixPct)
        connectorCount == count - helixCount
    IN  Upto(helixCount) \cup {helixCount + i : i \in Upto(connectorCount)}

TemplateCosmos(count) == Upto(count)

CosmosRadiusHaloFromCentre(i, coreCount, u, scale) ==
    IF i < coreCount THEN (ISqrt(u * 1000) * scale) \div 1000
    ELSE (Pow12[u] * CosmosHaloFactor * scale) \div 1000

\* r of particle i of generateCosmos when Math.random() returns u, 1/1000
CosmosRadius(i, coreCount, u, scale) ==
    IF i < coreCount THEN (ISqrt(u * 1000) * scale) \div 1000
    ELSE scale + (Pow12[u] * (CosmosHaloFactor * scale - scale)) \div 1000

\* what Math.random() returns for the radius of particle i
CosmosDraw(req, i, coreCount) ==
    IF i < coreCount THEN req.uCore
    ELSE IF i < coreCount + req.zeroDraws THEN 0 ELSE req.uHalo

\* the particles of generateCosmos with |position| = r <= CORE_RADIUS
CosmosInside(req) ==
    LET coreCount == FloorPct(req.count, CosmosCorePct)
        scale == CosmosScale * 1000
    IN  Cardinality({i \in Upto(req.count) :
            CosmosRadius(i, coreCount, CosmosDraw(req, i, coreCount), scale)
                <= scale})

\* The particle indexes a generator of geometryFactory.ts writes.
GeometrySphere(count) == Upto(count)

GeometrySaturn(count) ==
    LET planetCount == FloorPct(count, SaturnPlanetPct)
    IN  Upto(planetCount) \cup (planetCount..(count - 1))

GeometryFireworksBurstsOnly(count, burstCount) ==
    LET perBurst == count \div burstCount
    IN  {idx \in {b * perBurst + i : b \in Upto(burstCount), i \in Upto(perBurst)} :
            idx < count}

GeometryFireworks(count, burstCount) ==
    LET perBurst == count \div burstCount
    IN  {idx \in {b * perBurst + i : b \in Upto(burstCount), i \in Upto(perBurst)} :
            idx < count}
        \cup ((burstCount * perBurst)..(count - 1))

RECURSIVE ClusterIdx(_, _, _)
\* idx after the sub-cluster loops from cluster k on
ClusterIdx(count, k, idx) ==
    IF k > Len(ClusterWeights) THEN idx
    ELSE ClusterIdx(count, k + 1,
                    Min(count, Max(idx, idx + FloorPct(count, ClusterWeights[k]))))

GeometryCluster(count) ==
    LET afterClusters == ClusterIdx(count, 1, 0)
        afterFilaments == Min(count, afterClusters + FloorPct(count, FilamentPct))
    IN  Upto(afterClusters) \cup (afterClusters..(afterFilaments - 1))
        \cup (afterFilaments..(count - 1))

\* the base array generateGeometry builds for a type
GeometryBase(type, count, burstCount) ==
    CASE type = "heart" -> Upto(count)
      [] type = "flower" -> Upto(count)
      [] type = "saturn" -> GeometrySaturn(count)
      [] type = "buddha" -> Upto(count)
      [] type = "fireworks" -> GeometryFireworks(count, burstCount)
      [] type = "cluster" -> GeometryCluster(count)
      [] OTHER -> GeometrySphere(count)

NoRequest ==
    [module |-> "none", name |-> "none", count |-> 0, burstCount |-> 3,
     uCore |-> 0, uHalo |-> 0, zeroDraws |-> 0]

NoResult == [length |-> 0 - 1, unassigned |-> {}, inside |-> 0, beyond |-> 0]

\* the ids of PARTICLE_TEMPLATES
CatalogIds == {"cosmos", "heart", "saturn", "dna"}

GenRequests ==
    {[NoRequest EXCEPT !.module = "particleTemplates", !.name = n, !.count = c] :
        n \in CatalogIds \ {"cosmos"}, c \in GenCounts}
    \cup {[module |-> "particleTemplates", name |-> "cosmos", count |-> c,
           burstCount |-> 3, uCore |-> uc, uHalo |-> uh, zeroDraws |-> z] :
             c \in GenCounts \cup {CosmosCount}, uc \in Draws, uh \in Draws,
             z \in 0..MaxZeroDraws}
    \cup {[NoRequest EXCEPT !.module = "geometryFactory", !.name = n, !.count = c,
                            !.burstCount = b] :
             n \in ShapeTypes, c \in GenCounts, b \in BurstCounts}

\* template.generate(count, scale) of a template of PARTICLE_TEMPLATES: a
\* Float32Array(count * 3) and the particles the loops did not write
TemplateGenerate ==
    /\ genRequest.module = "particleTemplates"
    /\ generated = NoResult
    /\ LET count == genRequest.count
           written == CASE genRequest.name = "heart" -> TemplateHeart(count)
                        [] genRequest.name = "saturn" -> TemplateSaturn(count)
                        [] genRequest.name = "dna" -> TemplateDNA(count)
                        [] OTHER -> TemplateCosmos(count)
           inside == IF genRequest.name = "cosmos" THEN CosmosInside(genRequest)
                     ELSE 0
       IN  generated' = [length |-> count * 3,
                         unassigned |-> Upto(count) \ written,
                         inside |-> inside,
                         beyond |-> IF genRequest.name = "cosmos"
                                    THEN count - inside ELSE 0]
    /\ UNCHANGED genRequest
    /\ UNCHANGED otherThanGenerator

\* generateGeometry(type, count): the base array copied TRAIL_LENGTH times
\* per particle; a vertex is assigned when the loop wrote it from a base
\* particle the generator wrote
GeometryGenerate ==
    /\ genRequest.module = "geometryFactory"
    /\ generated = NoResult
    /\ LET count == genRequest.count
           base == GeometryBase(genRequest.name, count, genRequest.burstCount)
           totalVerts == count * GeometryTrailLength
           written == {i * GeometryTrailLength + t :
                          i \in Upto(count) \cap base, t \in Upto(GeometryTrailLength)}
       IN  generated' = [length |-> totalVerts * 3,
                         unassigned |-> Upto(totalVerts) \ written,
                         inside |-> 0, beyond |-> 0]
    /\ UNCHANGED genRequest
    /\ UNCHANGED otherThanGenerator

GeneratorParked ==
    /\ genRequest = NoRequest
    /\ generated = NoResult

\* ------------------------------------------------ pages with async init()
MaxLoopFrames == 2       \* loop executions followed
InitImports == 4         \* the imports init() awaits before its disposed check
Pages == {"data-explosion", "mobile-sphere"}
\* the runs of the page's effect: a second one under reactStrictMode
EffectRuns == 1..2

\* useEffect body: with the container present, disposed = false and init()
\* is called, which runs up to its first await
StartInit(pc, run) == [pc EXCEPT ![run] = "importing"]

\* the effect's cleanup: cleanupRef.current?.() sets disposed and cancels
\* the frame request of the run that stored it
RunCleanup(flags, ref) == IF ref = 0 THEN flags ELSE [flags EXCEPT ![ref] = TRUE]
CancelLoop(requests, ref) ==
    IF ref = 0 THEN requests ELSE [requests EXCEPT ![ref] = FALSE]

\* The page mounts.  In a development build reactStrictMode runs the effect,
\* its cleanup and the effect again; no init() has passed an await by then.
PageMount(pg, strict) ==
    /\ pagePc = "initial"
    /\ page' = pg
    /\ pagePc' = "mounted"
    /\ containerRef' = TRUE
    /\ pageInitPc' = IF strict THEN StartInit(StartInit(pageInitPc, 1), 2)
                 ELSE StartInit(pageInitPc, 1)
    /\ disposed' = IF strict THEN RunCleanup(disposed, cleanupRef) ELSE disposed
    /\ loopRequest' = IF strict THEN CancelLoop(loopRequest, cleanupRef)
                      ELSE loopRequest
    /\ UNCHANGED <<cleanupRef, importsLeft, loopFrames>>
    /\ UNCHANGED otherThanPage

\* An awaited import of init() settles.  After the last one init() returns
\* if disposed; otherwise it builds the scene, appending the canvas to
\* containerRef.current!, which throws when the ref is null; then it
\* requests loop and stores its cleanup in cleanupRef.
ImportSettles(run) ==
    /\ pageInitPc[run] = "importing"
    /\ importsLeft' = [importsLeft EXCEPT ![run] = @ - 1]
    /\ IF importsLeft[run] > 1
       THEN UNCHANGED <<pageInitPc, loopRequest, cleanupRef>>
       ELSE IF disposed[run]
       THEN /\ pageInitPc' = [pageInitPc EXCEPT ![run] = "returned"]
            /\ UNCHANGED <<loopRequest, cleanupRef>>
       ELSE IF ~containerRef
       THEN /\ pageInitPc' = [pageInitPc EXCEPT ![run] = "threw"]
            /\ UNCHANGED <<loopRequest, cleanupRef>>
       ELSE /\ pageInitPc' = [pageInitPc EXCEPT ![run] = "ready"]
            /\ loopRequest' = [loopRequest EXCEPT ![run] = TRUE]
            /\ cleanupRef' = run
    /\ UNCHANGED <<page, pagePc, containerRef, disposed, loopFrames>>
    /\ UNCHANGED otherThanPage

\* loop(): returns if disposed, else requests itself again and renders
Loop(run) ==
    /\ loopRequest[run]
    /\ loopFrames < MaxLoopFrames
    /\ IF disposed[run]
       THEN /\ loopRequest' = [loopRequest EXCEPT ![run] = FALSE]
            /\ UNCHANGED loopFrames
       ELSE /\ loopFrames' = loopFrames + 1
            /\ UNCHANGED loopRequest
    /\ UNCHANGED <<page, pagePc, containerRef, cleanupRef, pageInitPc, importsLeft,
                   disposed>>
    /\ UNCHANGED otherThanPage

\* The page unmounts: React detaches the ref and runs the effect's cleanup.
PageUnmount ==
    /\ pagePc = "mounted"
    /\ pagePc' = "unmounted"
    /\ containerRef' = FALSE
    /\ disposed' = RunCleanup(disposed, cleanupRef)
    /\ loopRequest' = CancelLoop(loopRequest, cleanupRef)
    /\ UNCHANGED <<page, cleanupRef, pageInitPc, importsLeft, loopFrames>>
    /\ UNCHANGED otherThanPage

PageParked ==
    /\ page = "none"
    /\ pagePc = "initial"
    /\ containerRef = FALSE
    /\ cleanupRef = 0
    /\ pageInitPc = [r \in EffectRuns |-> "idle"]
    /\ importsLeft = [r \in EffectRuns |-> InitImports]
    /\ disposed = [r \in EffectRuns |-> FALSE]
    /\ loopRequest = [r \in EffectRuns |-> FALSE]
    /\ loopFrames = 0

\* ----------------------------------------------------- explosion / bloom
MaxExplosions == 3       \* explosions followed
BloomPages == {"mobile-sphere", "part_004"}

\* CONFIG.BLOOM_DEFAULT, BLOOM_BANG, BLOOM_AFTER of the page, 1/10
BloomConfig(pg) ==
    IF pg = "part_004"
    THEN [BLOOM_DEFAULT |-> 18, BLOOM_BANG |-> 150, BLOOM_AFTER |-> 22]
    ELSE [BLOOM_DEFAULT |-> 25, BLOOM_BANG |-> 150, BLOOM_AFTER |-> 30]

\* doExplosion(): click, tap or an opening palm
DoExplosion ==
    /\ bloomPage # "none"
    /\ ~isExploded
    /\ explosions < MaxExplosions
    /\ isExploded' = TRUE
    /\ bloomTarget' = BloomConfig(bloomPage).BLOOM_BANG
    /\ gsapImports' = gsapImports + 1
    /\ explosions' = explosions + 1
    /\ UNCHANGED <<bloomPage, bloomTweens>>
    /\ UNCHANGED otherThanBloom

\* doReset(): click, tap or a fist
DoReset ==
    /\ bloomPage # "none"
    /\ isExploded
    /\ isExploded' = FALSE
    /\ bloomTarget' = BloomConfig(bloomPage).BLOOM_DEFAULT
    /\ UNCHANGED <<bloomPage, gsapImports, bloomTweens, explosions>>
    /\ UNCHANGED otherThanBloom

\* import('gsap') settles: its then-callback starts the tween
GsapImported ==
    /\ gsapImports > 0
    /\ gsapImports' = gsapImports - 1
    /\ bloomTweens' = bloomTweens + 1
    /\ UNCHANGED <<bloomPage, isExploded, bloomTarget, explosions>>
    /\ UNCHANGED otherThanBloom

\* the tween ends: onComplete: () => { bloomTarget = CONFIG.BLOOM_AFTER; }
TweenComplete ==
    /\ bloomTweens > 0
    /\ bloomTweens' = bloomTweens - 1
    /\ bloomTarget' = BloomConfig(bloomPage).BLOOM_AFTER
    /\ UNCHANGED <<bloomPage, isExploded, gsapImports, explosions>>
    /\ UNCHANGED otherThanBloom

\* the state init() sets up: isExploded = false, bloomTarget = BLOOM_DEFAULT
BloomAt(pg) ==
    /\ bloomPage = pg
    /\ isExploded = FALSE
    /\ bloomTarget = BloomConfig(pg).BLOOM_DEFAULT
    /\ gsapImports = 0
    /\ bloomTweens = 0
    /\ explosions = 0

BloomParked == BloomAt("none")

\* ------------------------------------------------------------ ZenParticles
ZenCooldown == 30        \* explosionCooldownRef.current = 30
ZenDriftPct == 3         \* low + (t - low) * 0.03
ZenLowMax == 350         \* recentLowRef.current < 0.35
ZenTensionMin == 400     \* t > 0.4
ZenDeltaMin == 200       \* delta > 0.2
\* stats.tension of a callback, 1/1000
ZenTensions == {0, 300, 450, 1000}
\* the gaps are counted up to here
GapCap == ZenCooldown + 1

CooldownTickTwice(cooldown) == IF cooldown > 0 THEN Max(0, cooldown - 2) ELSE cooldown

\* if (explosionCooldownRef.current > 0) explosionCooldownRef.current--
CooldownTick(cooldown) == IF cooldown > 0 THEN cooldown - 1 ELSE cooldown

\* the recent low: drops with the hand at once, drifts up slowly
TrackLow(low, t) == IF t < low THEN t ELSE low + MulRound(t - low, ZenDriftPct, 100)

\* handleHandUpdate(stats) with stats.tension = t
HandleHandUpdate(t) ==
    LET low == TrackLow(recentLowRef, t)
        cooldown == CooldownTick(explosionCooldownRef)
        delta == t - low
        explode == /\ cooldown = 0
                   /\ low < ZenLowMax
                   /\ t > ZenTensionMin
                   /\ delta > ZenDeltaMin
    IN  /\ recentLowRef' = IF explode THEN t ELSE low
        /\ explosionCooldownRef' = IF explode THEN ZenCooldown ELSE cooldown
        /\ explosionsSeen' = IF explode THEN Min(2, explosionsSeen + 1)
                             ELSE explosionsSeen
        /\ sinceExplosion' = IF explode THEN 0 ELSE Min(GapCap, sinceExplosion + 1)
        /\ lastGap' = IF explode /\ explosionsSeen > 0
                      THEN Min(GapCap, sinceExplosion + 1) ELSE lastGap
        /\ UNCHANGED otherThanZen

\* the refs as useRef creates them
ZenParked ==
    /\ recentLowRef = 1000
    /\ explosionCooldownRef = 0
    /\ explosionsSeen = 0
    /\ sinceExplosion = 0
    /\ lastGap = 0

ExtrasParked ==
    /\ TrailParked
    /\ GeneratorParked
    /\ PageParked
    /\ BloomParked
    /\ ZenParked

\* ----------------------------------------------------------------- actions
\* The effects of the first commit, in declaration order: the mode ref is
\* synchronised (line 125), then the Three.js setup runs.  The setup throws
\* before the pool is created (new THREE.WebGLRenderer), after it (catalog,
\* materials, trail geometry), or runs to animate(), whose first execution
\* is part of the setup; when that execution throws (throwInFirstFrame) the
\* catch block runs after the frame was requested and the effect returns no
\* cleanup.  The template effect skips the first commit.
MountEffects(outcome, callGap) ==
    /\ lifecycle = "mounting"
    /\ UNCHANGED otherThanScene
    /\ transitionModeRef' = transitionMode
    /\ UNCHANGED <<transitionMode, selectedTemplate, nextGen>>
    /\ IF outcome = "throwBeforePool"
       THEN /\ lifecycle' = "failed"
            /\ UNCHANGED <<currentPositionsRef, targetPositionsRef, explosionRef,
                           uExplosion, isTransitioning, animationIdRef, pendingFrame,
                           clockRunning, sinceFrame, dt, frameGap, retriggered,
                           frameFault, colorVars>>
       ELSE IF outcome = "throwAfterPool"
       THEN /\ lifecycle' = "failed"
            /\ currentPositionsRef' = "allocated"
            /\ targetPositionsRef' = Generate(InitTemplate(selectedTemplate), 0)
            /\ starCatalog' = starCatalog + 1
            /\ uTintColor' \in {NoMaterial, selectedColor}
            /\ UNCHANGED <<explosionRef, uExplosion, isTransitioning, animationIdRef,
                           pendingFrame, clockRunning, sinceFrame, dt, frameGap,
                           retriggered, frameFault, selectedColor>>
       ELSE /\ lifecycle' = IF outcome = "throwInFirstFrame" THEN "failed" ELSE "running"
            /\ frameFault' = IF outcome = "throwInFirstFrame" THEN "last" ELSE frameFault
            /\ currentPositionsRef' = "allocated"
            /\ animationIdRef' = RequestFrame(animationIdRef)
            /\ pendingFrame' = PendingAfterFrame(animationIdRef,
                                   IF outcome = "throwInFirstFrame" THEN "render" ELSE "none")
            /\ clockRunning' = TRUE
            /\ dt' = FrameDt(callGap)
            /\ frameGap' = NoGap
            /\ sinceFrame' = callGap
            /\ targetPositionsRef' = Generate(InitTemplate(selectedTemplate), 0)
            /\ starCatalog' = starCatalog + 1
            /\ uTintColor' = selectedColor
            /\ UNCHANGED <<explosionRef, uExplosion, isTransitioning, retriggered,
                           selectedColor>>

\* The browser runs the frame request it holds; it does so whatever has
\* become of the component.
Animate(wait, callGap, thrown) ==
    /\ pendingFrame # 0
    /\ UNCHANGED otherThanScene
    /\ AnimateBody(wait, callGap, thrown)
    /\ UNCHANGED <<lifecycle, currentPositionsRef, transitionMode, transitionModeRef,
                   selectedTemplate, nextGen, colorVars>>

\* handleTemplateChange(templateId): setSelectedTemplate, then the template
\* effect (generateTemplate) when the state changed.
HandleTemplateChange(templateId) ==
    /\ templateId # selectedTemplate
    /\ UNCHANGED otherThanScene
    /\ selectedTemplate' = templateId
    /\ GenerateTemplate(transitionModeRef, templateId)
    /\ UNCHANGED <<lifecycle, currentPositionsRef, uExplosion, transitionMode,
                   transitionModeRef, animationIdRef, pendingFrame, clockRunning,
                   sinceFrame, dt, frameGap, frameFault, colorVars>>

\* A template button: disabled while isTransitioning.
ClickTemplate(templateId) ==
    /\ lifecycle \in {"running", "failed"}
    /\ ~isTransitioning
    /\ HandleTemplateChange(templateId)

\* handleKeyDown, keys 1-9: no isTransitioning check.
KeyTemplate(templateId) ==
    /\ lifecycle \in {"running", "failed"}
    /\ HandleTemplateChange(templateId)

\* A transition-mode button: setTransitionMode, then the effects whose
\* dependencies changed, in declaration order: the mode ref is synchronised
\* and the template effect runs generateTemplate(selectedTemplate).
SelectTransitionMode(mode) ==
    /\ lifecycle \in {"running", "failed"}
    /\ mode # transitionMode
    /\ UNCHANGED otherThanScene
    /\ transitionMode' = mode
    /\ transitionModeRef' = mode
    /\ GenerateTemplate(mode, selectedTemplate)
    /\ UNCHANGED <<lifecycle, currentPositionsRef, uExplosion, selectedTemplate,
                   animationIdRef, pendingFrame, clockRunning, sinceFrame, dt,
                   frameGap, frameFault, colorVars>>

\* a cleanup that does not cancel the frame request
CancelFrameNoop(ref, pending) == pending

\* cancelAnimationFrame(animationIdRef.current), when the ref is set
CancelFrame(ref, pending) == IF ref # 0 /\ pending = ref THEN 0 ELSE pending

\* The component unmounts.  The setup effect returned its cleanup only when
\* the setup ran to the end.
Unmount ==
    /\ lifecycle \in {"running", "failed"}
    /\ UNCHANGED otherThanScene
    /\ lifecycle' = "unmounted"
    /\ pendingFrame' = IF lifecycle = "running"
                       THEN CancelFrame(animationIdRef, pendingFrame)
                       ELSE pendingFrame
    /\ UNCHANGED <<currentPositionsRef, targetPositionsRef, explosionRef, uExplosion,
                   transitionMode, transitionModeRef, selectedTemplate,
                   isTransitioning, nextGen, animationIdRef, clockRunning,
                   sinceFrame, dt, frameGap, retriggered, frameFault, colorVars>>

\* handleColorChange(color): the state is set and updateColor writes the
\* tint uniform when the material exists.
ColorChange(color) ==
    /\ lifecycle \in {"running", "failed"}
    /\ color # selectedColor
    /\ UNCHANGED otherThanScene
    /\ selectedColor' = color
    /\ uTintColor' = IF uTintColor # NoMaterial THEN color ELSE uTintColor
    /\ UNCHANGED <<lifecycle, currentPositionsRef, targetPositionsRef, explosionRef,
                   uExplosion, transitionMode, transitionModeRef, selectedTemplate,
                   isTransitioning, nextGen, animationIdRef, pendingFrame, clockRunning,
                   sinceFrame, dt, frameGap, retriggered, frameFault, starCatalog>>

SetupOutcomes == {"ok", "throwBeforePool", "throwAfterPool"}

\* the setup outcomes with a first animate() that throws
SetupFaults == SetupOutcomes \cup {"throwInFirstFrame"}

\* Before the first commit's effects.
SceneUnmounted(mode, templateId) ==
    /\ lifecycle = "mounting"
    /\ currentPositionsRef = NoBuffer
    /\ targetPositionsRef = Null
    /\ explosionRef = IdleExplosion
    /\ uExplosion = 0
    /\ transitionMode = mode
    /\ transitionModeRef = "explode"
    /\ selectedTemplate = templateId
    /\ isTransitioning = FALSE
    /\ nextGen = 1
    /\ animationIdRef = 0
    /\ pendingFrame = 0
    /\ clockRunning = FALSE
    /\ sinceFrame = 0
    /\ dt = 0
    /\ frameGap = NoGap
    /\ retriggered = FALSE
    /\ frameFault = "none"
    /\ selectedColor = DefaultColor
    /\ uTintColor = NoMaterial
    /\ starCatalog = 0

\* loadSession() returned null (the defaults) or a validated session.
Init ==
    /\ \E m \in TransitionModes, t \in Templates : SceneUnmounted(m, t)
    /\ SpringParked
    /\ GestureParked
    /\ TrackerParked
    /\ InterpParked
    /\ DecayParked
    /\ SessionParked
    /\ GeometryParked
    /\ ExtrasParked

Next ==
    \/ \E o \in SetupOutcomes, c \in 0..MaxCallGap : MountEffects(o, c)
    \/ \E w \in 0..MaxWait, c \in 0..MaxCallGap : Animate(w, c, "none")
    \/ \E t \in Templates : ClickTemplate(t)
    \/ \E t \in Templates : KeyTemplate(t)
    \/ \E m \in TransitionModes : SelectTransitionMode(m)
    \/ Unmount

Spec == Init /\ [][Next]_vars

\* ------------------------------------------------------------ SpringSpec
SpringInit ==
    /\ SceneUnmounted("morph", DefaultTemplate)
    /\ \E t \in SpringTargets : SpringSettled(t)
    /\ GestureParked
    /\ TrackerParked
    /\ InterpParked
    /\ DecayParked
    /\ SessionParked
    /\ GeometryParked
    /\ ExtrasParked

SpringNext ==
    \/ IdleSpringFrame
    \/ \E t \in SpringTargets : MorphTrigger(t)

SpringSpec == SpringInit /\ [][SpringNext]_vars

\* ----------------------------------------------------------- TriggerSpec
\* The scene with every control of the panel: templates, transition modes
\* and tint colours.
TriggerNext ==
    \/ \E o \in SetupOutcomes, c \in 0..MaxCallGap : MountEffects(o, c)
    \/ \E w \in 0..MaxWait, c \in 0..MaxCallGap : Animate(w, c, "none")
    \/ \E t \in Templates : ClickTemplate(t)
    \/ \E t \in Templates : KeyTemplate(t)
    \/ \E m \in TransitionModes : SelectTransitionMode(m)
    \/ \E color \in Colors : ColorChange(color)
    \/ Unmount

TriggerSpec == Init /\ [][TriggerNext]_vars

\* ------------------------------------------------------------- TrailSpec
\* The particle of SpringSpec with its trail.
TrailInit ==
    /\ SceneUnmounted("morph", DefaultTemplate)
    /\ \E t \in SpringTargets : SpringSettled(t) /\ TrailAt(t)
    /\ GestureParked
    /\ TrackerParked
    /\ InterpParked
    /\ DecayParked
    /\ SessionParked
    /\ GeometryParked
    /\ GeneratorParked
    /\ ZenParked
    /\ PageParked
    /\ BloomParked

TrailNext ==
    \/ TrailFrame
    \/ \E t \in SpringTargets : MorphTrigger(t)

TrailSpec == TrailInit /\ [][TrailNext]_vars

\* --------------------------------------------------------- GeneratorSpec
\* One call of a shape generator.
GeneratorInit ==
    /\ SceneUnmounted("morph", DefaultTemplate)
    /\ SpringParked
    /\ GestureParked
    /\ TrackerParked
    /\ InterpParked
    /\ DecayParked
    /\ SessionParked
    /\ GeometryParked
    /\ TrailParked
    /\ ZenParked
    /\ PageParked
    /\ BloomParked
    /\ genRequest \in GenRequests
    /\ generated = NoResult

GeneratorNext ==
    \/ TemplateGenerate
    \/ GeometryGenerate

GeneratorSpec == GeneratorInit /\ [][GeneratorNext]_vars

\* -------------------------------------------------------------- PageSpec
\* A page with an asynchronous init(), mounted and unmounted.
PageNext ==
    \/ \E pg \in Pages, strict \in BOOLEAN : PageMount(pg, strict)
    \/ \E run \in EffectRuns : ImportSettles(run)
    \/ \E run \in EffectRuns : Loop(run)
    \/ PageUnmount

PageSpec == Init /\ [][PageNext]_vars

\* ------------------------------------------------------------- BloomSpec
\* Explosions and resets of a sphere page with the bloom tween.
BloomInit ==
    /\ \E m \in TransitionModes, t \in Templates : SceneUnmounted(m, t)
    /\ SpringParked
    /\ GestureParked
    /\ TrackerParked
    /\ InterpParked
    /\ DecayParked
    /\ SessionParked
    /\ GeometryParked
    /\ TrailParked
    /\ GeneratorParked
    /\ ZenParked
    /\ PageParked
    /\ \E pg \in BloomPages : BloomAt(pg)

BloomNext ==
    \/ DoExplosion
    \/ DoReset
    \/ GsapImported
    \/ TweenComplete

BloomSpec == BloomInit /\ [][BloomNext]_vars

\* --------------------------------------------------------------- ZenSpec
\* The hand tracker calls handleHandUpdate with any tension.
ZenNext == \E t \in ZenTensions : HandleHandUpdate(t)

ZenInit ==
    /\ SceneUnmounted("morph", DefaultTemplate)
    /\ SpringParked
    /\ GestureParked
    /\ TrackerParked
    /\ InterpParked
    /\ DecayParked
    /\ SessionParked
    /\ GeometryParked
    /\ ExtrasParked

ZenSpec == ZenInit /\ [][ZenNext]_vars

\* ------------------------------------------------------------- FaultSpec
\* The scene with exceptions: executions of animate that throw at the
\* update or at the render, and a setup whose first animate() throws.  The
\* template is changed by clicks.
FaultNext ==
    \/ \E o \in SetupFaults, c \in 0..MaxCallGap : MountEffects(o, c)
    \/ \E w \in 0..MaxWait, c \in 0..MaxCallGap, x \in FramePoints : Animate(w, c, x)
    \/ \E t \in Templates : ClickTemplate(t)
    \/ Unmount

FaultSpec == Init /\ [][FaultNext]_vars

\* ----------------------------------------------------------- GestureSpec
GestureInit ==
    /\ SceneUnmounted("explode", DefaultTemplate)
    /\ SpringParked
    /\ GestureParked
    /\ TrackerParked
    /\ InterpParked
    /\ DecayParked
    /\ SessionParked
    /\ GeometryParked
    /\ ExtrasParked

GestureNext ==
    \/ EnableCamera
    \/ DisableCamera
    \/ UnmountHook
    \/ \E r \in Runs : InitAfterImports(r)
    \/ \E r \in Runs, ok \in BOOLEAN : InitAfterStart(r, ok)
    \/ \E r \in Runs : CameraFrame(r)
    \/ \E r \in Runs, h \in 0..2 : OnResults(r, h)
    \/ GestureFrame
    \/ InitClockTick

GestureSpec == GestureInit /\ [][GestureNext]_vars

\* ----------------------------------------------------------- TrackerSpec
TrackerInit ==
    /\ SceneUnmounted("explode", DefaultTemplate)
    /\ SpringParked
    /\ GestureParked
    /\ TrackerParked
    /\ InterpParked
    /\ DecayParked
    /\ SessionParked
    /\ GeometryParked
    /\ ExtrasParked

TrackerNext ==
    \/ \E tasks \in BOOLEAN, granted \in BOOLEAN : TrackingGotMedia(tasks, granted)
    \/ \E loaded \in BOOLEAN : TrackingLoaded(loaded)
    \/ \E ready \in BOOLEAN, h \in 0..2, t \in RawTensions, x \in RawCenters :
           Detect(ready, h, t, x)
    \/ TrackerCameraFrame
    \/ \E h \in 0..2, t \in RawTensions, x \in RawCenters : HandsOnResults(h, t, x)
    \/ RetryTracking
    \/ UnmountTracker

TrackerSpec == TrackerInit /\ [][TrackerNext]_vars

\* ------------------------------------------------------------ InterpSpec
InterpInit ==
    /\ SceneUnmounted("explode", DefaultTemplate)
    /\ SpringParked
    /\ GestureParked
    /\ TrackerParked
    /\ InterpParked
    /\ DecayParked
    /\ SessionParked
    /\ GeometryParked
    /\ ExtrasParked

InterpNext ==
    \/ \E results \in ResultInputs : HookCallback(results)
    \/ \E landmarks \in HandInputs : InterpretHand(landmarks)

InterpSpec == InterpInit /\ [][InterpNext]_vars

\* ------------------------------------------------------------- DecaySpec
DecayInit ==
    /\ SceneUnmounted("explode", DefaultTemplate)
    /\ SpringParked
    /\ GestureParked
    /\ InterpParked
    /\ SessionParked
    /\ GeometryParked
    /\ ExtrasParked
    /\ \E v \in TrackerVariants, t \in DecayStartTensions, x \in DecayStartCenters :
           /\ TrackerSmoothedAt(t, x)
           /\ decayVariant = v
           /\ startTension = t
           /\ startCenterX = x

DecayNext == DecayCall

DecaySpec == DecayInit /\ [][DecayNext]_vars

\* ----------------------------------------------------------- SessionSpec
SessionInit ==
    /\ SceneUnmounted("explode", DefaultTemplate)
    /\ SpringParked
    /\ GestureParked
    /\ TrackerParked
    /\ InterpParked
    /\ DecayParked
    /\ GeometryParked
    /\ ExtrasParked
    /\ \E data \in Blobs : SessionStored(data)

SessionNext == ReadSession

SessionSpec == SessionInit /\ [][SessionNext]_vars

\* ----------------------------------------------------------- CatalogSpec
\* The functions that look a template or a shape up, given ids with and
\* without an entry: the pool creation of the setup, generateTemplate on a
\* template change, and generateGeometry.
RequestIds == Templates \cup {"spiral"}

CatalogInit ==
    /\ \E m \in TransitionModes, t \in RequestIds : SceneUnmounted(m, t)
    /\ SpringParked
    /\ GestureParked
    /\ TrackerParked
    /\ InterpParked
    /\ DecayParked
    /\ SessionParked
    /\ GeometryParked
    /\ ExtrasParked

CatalogNext ==
    \/ \E c \in 0..MaxCallGap : MountEffects("ok", c)
    \/ \E w \in 0..MaxWait, c \in 0..MaxCallGap : Animate(w, c, "none")
    \/ \E t \in RequestIds : KeyTemplate(t)
    \/ \E type \in ShapeInputs : ShapeRequest(type)

CatalogSpec == CatalogInit /\ [][CatalogNext]_vars

\* ------------------------------------------------------------- step kinds
\* animate ran: every execution stores a new request id
FrameStep == animationIdRef' # animationIdRef
\* generateTemplate ran (template effect): a new array was generated
TriggerStep == nextGen' # nextGen
phase == explosionRef.phase

\* ------------------------------------------------------------------- C1
\* C1: with the frame loop running, an explode-mode trigger in idle puts the
\* phase in exploding at once; an exploding frame moves to reforming exactly
\* when the timer it advanced has reached 1.5, a reforming frame to idle
\* exactly when the timer has reached 0.8, and no other step leaves these
\* phases except a trigger back to exploding; and if frames with a positive
\* dt keep coming and triggers stop, every transition in progress reaches
\* idle.
C1_Milestones ==
    /\ (lifecycle = "running" /\ phase = "idle" /\ TriggerStep
            /\ transitionModeRef' = "explode")
         => (phase' = "exploding" /\ explosionRef'.progress = 0)
    /\ (phase = "exploding" /\ FrameStep)
         => /\ (phase' = "reforming")
                 = (AdvanceProgress(explosionRef.progress, dt') >= ExplodeEnd)
            /\ phase' \in {"exploding", "reforming"}
    /\ (phase = "reforming" /\ FrameStep)
         => /\ (phase' = "idle")
                 = (AdvanceProgress(explosionRef.progress, dt') >= ReformEnd)
            /\ phase' \in {"reforming", "idle"}
    /\ (phase # phase' /\ ~FrameStep) => phase' = "exploding"

C1_ExplodeTerminates ==
    /\ [][C1_Milestones]_vars
    /\ ([]<><<FrameStep /\ dt' > 0>>_vars /\ <>[][~TriggerStep]_vars)
          => /\ (phase = "exploding") ~> (phase = "reforming")
             /\ (phase = "reforming") ~> (phase = "idle")

\* an explode-mode transition has run from idle through both phases to idle
C1_Witness ==
    /\ phase = "idle"
    /\ uExplosion = 0
    /\ transitionModeRef = "explode"
    /\ targetPositionsRef.gen > 0

\* ------------------------------------------------------------------- C2
\* the array the template effect generated in this step
NewPositions == Generate(selectedTemplate', nextGen)
MorphTriggerStep == TriggerStep /\ transitionModeRef' = "morph"

\* C2 as stated: every triggerTransition call in morph mode leaves the phase
\* (and the burst state) alone and has replaced target by the new positions
\* when it returns.
C2_MorphAlwaysReplacesTarget ==
    [][MorphTriggerStep =>
         /\ explosionRef' = explosionRef
         /\ targetPositionsRef' = NewPositions]_vars

\* C2 amended: a morph-mode call never changes the phase or creates burst
\* velocities; it replaces target by the new positions when the particle
\* buffers exist, and returns without changing anything when the setup threw
\* before creating them.
C2_MorphReplacesTargetWhenReady ==
    [][MorphTriggerStep =>
         /\ explosionRef' = explosionRef
         /\ isTransitioning' = isTransitioning
         /\ targetPositionsRef' = IF currentPositionsRef = NoBuffer
                                  THEN targetPositionsRef
                                  ELSE NewPositions]_vars

\* a morph-mode trigger has replaced target in the middle of an explosion
C2_Witness ==
    /\ transitionModeRef = "morph"
    /\ phase = "exploding"
    /\ targetPositionsRef.gen = nextGen - 1
    /\ targetPositionsRef.gen > explosionRef.pendingTarget.gen

\* ------------------------------------------------------------------- C3
\* C3: the phase is one of idle, exploding, reforming; the active flag is set
\* exactly in the last two; burstVelocities and pendingTarget are null
\* whenever the phase is idle (so they are non-null only while exploding or
\* reforming).
C3_PhaseInvariant ==
    /\ phase \in {"idle", "exploding", "reforming"}
    /\ explosionRef.active = (phase # "idle")
    /\ (phase = "idle") =>
          /\ explosionRef.burstVelocities = Null
          /\ explosionRef.pendingTarget = Null

\* a vortex transition has completed and its burst state has been cleared
C3_Witness ==
    /\ phase = "idle"
    /\ transitionModeRef = "vortex"
    /\ targetPositionsRef.gen > 0
    /\ explosionRef.burstVelocities = Null

\* ------------------------------------------------------------------- C4
SwitchToReforming == phase = "exploding" /\ phase' = "reforming"

C7_DtIsFrameTime ==
    (frameGap # NoGap) => dt = Min(frameGap, DtCap)

SpringFrameStep == springFrames' = springFrames + 1

\* C6 as stated: no idle spring step increases the distance between current
\* and the stationary target.
C6_DistanceNeverIncreases ==
    [][SpringFrameStep => Dist2(current', target) <= Dist2(current, target)]_vars

\* C6 amended: for a particle that was at rest when target was replaced, the
\* first seven idle spring steps never increase the distance to the target,
\* and no later step takes it beyond the distance it started from (the
\* spring is under-damped: the particle passes the target in the seventh
\* step and the distance grows again from the eighth).
C6_MonotoneApproachThenBoundedOvershoot ==
    [][(SpringFrameStep /\ fromRest) =>
         /\ (springFrames < 7) =>
                Dist2(current', target) <= Dist2(current, target)
         /\ Dist2(current', target) <= startDist2]_vars

\* seven steps after a morph trigger from rest the particle is nearer to
\* the new target than it was at any earlier step, and still moving
C6_Witness ==
    /\ fromRest
    /\ morphs > 0
    /\ springFrames = 7
    /\ startDist2 > 0
    /\ 50 * Dist2(current, target) < startDist2
    /\ velocity # Zero3

\* ------------------------------------------------------------------- C8
GestureFrameStep == gFrame' # gFrame

\* C8: the cell always holds the whole GestureState that the most recent
\* callback past the flag built, and every animate frame uses exactly that
\* state: the same one again when no callback ran since the previous frame,
\* only the newest one when several ran.
C8_LastWriteWins ==
    [][/\ dataRef' = lastNewState'
       /\ GestureFrameStep => frameG' = lastNewState]_vars

\* a frame has used the state of the third callback, which saw two hands
C8_Witness ==
    /\ frameG.seq = MaxCallbacks
    /\ frameG.handsDetected = 2
    /\ frameG = dataRef

\* ------------------------------------------------------------------- C9
\* The useHandGesture half of C9: a result delivered to a run whose flag is
\* down changes neither the cell, the accumulators nor the React state.
C9_HookCallbacksGuarded ==
    [][\A r \in Runs :
          (inflight'[r] < inflight[r] /\ ~isMounted[r]) =>
              UNCHANGED <<dataRef, smoothedRef, gesture, lastNewState>>]_vars

\* C9: a detection callback delivered after teardown has started touches no
\* state; stated here for the HandTracker: once the component is unmounted
\* neither smoothedRef changes nor is onUpdate called.
C9_CallbacksCheckLiveness ==
    [][~trackerMounted =>
          UNCHANGED <<smoothedTension, smoothedCenterX, updates>>]_vars

\* ------------------------------------------------------------------ C11
\* C11: a run of the gesture detector that has been torn down and whose
\* initialisation has settled has no camera running (no live track),
\* whatever point of the initialisation the teardown came at.
C11_TeardownStopsCamera ==
    \A r \in Runs :
        (~isMounted[r] /\ initPc[r] \in {"returned", "started", "failed"})
            => ~cameraOn[r]

\* ------------------------------------------------------------------ C12
\* C12: the detector never shows "initializing" 15 s or more after the
\* camera was switched on.
C12_InitBounded ==
    (hookMounted /\ initAge >= InitTimeoutTicks) => ~Initializing

\* ------------------------------------------------------------------ C13
\* C13: a mount whose setup threw has never called or scheduled animate.
C13_NoLoopAfterFailedSetup ==
    (lifecycle = "failed") => (animationIdRef = 0 /\ pendingFrame = 0)

\* ------------------------------------------------------------------ C14
\* C14: every execution of animate, whether it throws or not, leaves the
\* frame request it made outstanding, so that until the teardown the next
\* frame always runs.
C14_LoopSurvivesFrameFailure ==
    /\ [][FrameStep => (pendingFrame' # 0 /\ pendingFrame' = animationIdRef')]_vars
    /\ [](lifecycle = "running" => pendingFrame # 0)

\* a frame threw, a later frame ran its update to the end, and the next
\* frame is requested
C14_Witness ==
    /\ lifecycle = "running"
    /\ frameFault = "earlier"
    /\ pendingFrame # 0
    /\ phase = "reforming"

\* ------------------------------------------------------------------ C15
\* the hook's callback ran on a result with no hand
ZeroHandsCallback ==
    /\ interpCalls' = interpCalls + 1
    /\ produced'.handsDetected = 0

Abs(x) == IF x < 0 THEN 0 - x ELSE x

\* v moved from old toward goal without passing it, and moved if it was
\* not there already
MovedToward(old, v, goal) ==
    /\ Abs(v - goal) <= Abs(old - goal)
    /\ (old # goal) => Abs(v - goal) < Abs(old - goal)
    /\ (old >= goal) => (v >= goal)
    /\ (old <= goal) => (v <= goal)

\* C15: a callback of useHandGesture with zero hands moves the produced
\* tension from its previous value toward 0 and the produced center from
\* its previous value toward 0.5, and never sets them to a fixed value.
C15_ZeroHandsDecay ==
    [][ZeroHandsCallback =>
          /\ MovedToward(produced.tension, produced'.tension, 0)
          /\ MovedToward(produced.centerX, produced'.centerX, CenterHalf)
          /\ MovedToward(produced.centerY, produced'.centerY, CenterHalf)]_vars

\* ------------------------------------------------------------------ C16
\* C16: every call of processResults without hands makes a tension above 0
\* strictly smaller without going below 0 and brings a centerX that is not
\* 0.5 strictly closer to 0.5 without crossing it; after the hundredth
\* call in a row both are closer to their defaults than at the start.
C16_DecayTowardDefaults ==
    /\ [][(updates' = updates + 1) =>
             /\ MovedToward(smoothedTension, smoothedTension', 0)
             /\ smoothedTension' >= 0
             /\ MovedToward(smoothedCenterX, smoothedCenterX', CenterDefault)]_vars
    /\ []((updates = MaxDecayCalls) =>
             /\ smoothedTension < startTension
             /\ (startCenterX # CenterDefault) =>
                    Abs(smoothedCenterX - CenterDefault) < Abs(startCenterX - CenterDefault))

\* a hundred calls from tension 1 and centerX 0.1
C16_Witness ==
    /\ updates = MaxDecayCalls
    /\ startTension = TensionOne
    /\ startCenterX = 100000
    /\ smoothedTension > 0
    /\ smoothedTension < startTension
    /\ smoothedCenterX > startCenterX
    /\ smoothedCenterX < CenterDefault

\* ------------------------------------------------------------------ C17
\* C17: in every GestureState the callback of useHandGesture produced,
\* tension is clamp(1 - averageOpenness, 0, 1) of that state and lies in
\* [0, 1].
C17_TensionIsInvertedOpenness ==
    (interpCalls > 0) =>
        /\ produced.tension
               = Max(0, Min(OpennessOne, OpennessOne - produced.averageOpenness))
        /\ produced.tension \in 0..OpennessOne

\* two hands whose average openness is strictly between closed and open
C17_Witness ==
    /\ interpCalls > 0
    /\ produced.handsDetected = 2
    /\ produced.averageOpenness > 0
    /\ produced.averageOpenness < OpennessOne
    /\ produced.tension = OpennessOne - produced.averageOpenness

\* ------------------------------------------------------------------ C18
\* C18: a hand whose palm size is below the epsilon has openness 0 from
\* calculateFingerOpenness and tension 1 from calculateTension.
C18_SmallPalmIsClosed ==
    (probe.hand # NoHand /\ PalmSizeOfHand[probe.hand[1]] < PalmEpsilon) =>
        /\ probe.openness = 0
        /\ probe.tension = OpennessOne

\* C18 for calculateFingerOpenness alone
C18_SmallPalmOpennessZero ==
    (probe.hand # NoHand /\ PalmSizeOfHand[probe.hand[1]] < PalmEpsilon) =>
        probe.openness = 0

\* C18 for calculateTension alone
C18_SmallPalmTensionOne ==
    (probe.hand # NoHand /\ PalmSizeOfHand[probe.hand[1]] < PalmEpsilon) =>
        probe.tension = OpennessOne

\* ------------------------------------------------------------------ C19
\* the blob is JSON for an object with every field of SessionData present
\* and of its declared type, a known transition mode and a catalog template
SchemaValid(data) ==
    /\ data.kind = "object"
    /\ data.selectedTemplate.t = "string"
    /\ data.selectedTemplate.v \in Templates
    /\ data.selectedColor.t = "object"
    /\ data.selectedColor.name.t = "string"
    /\ data.selectedColor.hex.t = "string"
    /\ data.selectedColor.rgb = Arr("numbers")
    /\ data.customColor.t = "string"
    /\ data.transitionMode.t = "string"
    /\ data.transitionMode.v \in TransitionModes
    /\ data.showPanel.t = "boolean"

\* C19: loadSession never throws, and for a blob that is not valid JSON,
\* lacks a field, has a field of the wrong type or an unrecognised enum
\* value it returns null and every preference starts at its default.
C19_InvalidBlobGivesDefaults ==
    (sessionPc = "loaded") =>
        /\ ~loadThrew
        /\ (~SchemaValid(storage)) =>
               (savedSessionRef = NoSession /\ prefs = InitialPrefs(NoSession))

\* C19, the part about exceptions
C19_LoadSessionNeverThrows ==
    (sessionPc = "loaded") => ~loadThrew

\* C19, for the fields at the top level of the blob
C19_TopLevelFieldsChecked ==
    (sessionPc = "loaded" /\ savedSessionRef # NoSession) =>
        /\ storage.kind = "object"
        /\ storage.selectedTemplate.t = "string"
        /\ storage.selectedTemplate.v \in Templates
        /\ storage.customColor.t = "string"
        /\ storage.transitionMode.v \in TransitionModes
        /\ storage.showPanel.t = "boolean"

\* ------------------------------------------------------------------ C20
\* the positions a template change asked for: the new target in morph
\* mode, the pending target of the transition otherwise
RequestedTarget(mode, tgt, e) == IF mode = "morph" THEN tgt ELSE e.pendingTarget

\* the pool is created from the saved template, or from the default one
\* when the catalog does not have it
C20_PoolFallsBack ==
    [][(lifecycle = "mounting" /\ lifecycle' = "running") =>
           /\ targetPositionsRef' # Null
           /\ targetPositionsRef'.tpl =
                  (IF selectedTemplate \in Templates THEN selectedTemplate
                   ELSE DefaultTemplate)]_vars

\* a template change to an id the catalog does not have asks for newly
\* generated positions of the default template
C20_TemplateChangeFallsBack ==
    [][(selectedTemplate' # selectedTemplate /\ selectedTemplate' \notin Templates) =>
           /\ nextGen' = nextGen + 1
           /\ RequestedTarget(transitionModeRef', targetPositionsRef', explosionRef')
                  = Generate(DefaultTemplate, nextGen)]_vars

\* generateGeometry gives the default shape for a type it does not have
C20_GeometryFallsBack ==
    (shape # "none") =>
        targetPos = (IF shape \in ShapeTypes THEN shape ELSE "sphere")

SimulationState ==
    <<targetPositionsRef, currentPositionsRef, explosionRef, nextGen, starCatalog>>

\* C21: a change of the transition mode or of the tint colour, with the
\* template as it was, leaves target, current, the transition phase with
\* its timer, burstVelocities and pendingTarget, and the static attributes
\* unchanged, and generates no positions.
C21_OnlyTemplateChangeTriggers ==
    [][((transitionMode' # transitionMode \/ selectedColor' # selectedColor)
          /\ selectedTemplate' = selectedTemplate)
       => UNCHANGED SimulationState]_vars

\* C21 for the tint colour alone
C21_ColorChangeOnlyTints ==
    [][(selectedColor' # selectedColor) => UNCHANGED SimulationState]_vars

\* the static attributes are assigned once, at the creation of the pool
C21_StaticAttributesAssignedOnce ==
    [][(starCatalog' # starCatalog) => (lifecycle = "mounting" /\ starCatalog' = 1)]_vars

\* ------------------------------------------------------------------ C22
\* a frame ran its trail block
TrailFrameStep == springFrames' = springFrames + 1

\* a frame shifted the trail and wrote slot 0
TrailUpdateStep == TrailFrameStep /\ trailFrame' = 0

\* C22 as stated: after every frame slot 0 holds the current position of
\* that frame.
C22_SlotZeroMirrorsEveryFrame ==
    [][TrailFrameStep => trailPos'[1] = current']_vars

\* C22 amended: after every frame that updates the trail, which is every
\* second frame, slot 0 holds the current position of that frame; after the
\* frames in between the trail is what it was.
C22_SlotZeroMirrorsOnUpdate ==
    [][TrailFrameStep =>
          IF trailFrame' = 0 THEN trailPos'[1] = current'
          ELSE UNCHANGED <<trailPos, trailAlpha>>]_vars

\* the moving particle right after a trail update
C22_Witness ==
    /\ springFrames >= 2
    /\ trailFrame = 0
    /\ velocity # Zero3
    /\ trailPos[1] = current
    /\ trailPos[2] # trailPos[1]

\* ------------------------------------------------------------------ C23
\* C23: at each trail update every slot k >= 1 receives 0.65 times the
\* alpha slot k-1 held before the update, which is never more than that
\* alpha, and slot 0 receives an alpha of at most 0.5.
C23_AlphaDecaysGeometrically ==
    [][TrailUpdateStep =>
          /\ \A k \in 2..TrailLength :
                 /\ trailAlpha'[k] = (2 * trailAlpha[k - 1] * 65 + 100) \div 200
                 /\ trailAlpha'[k] <= trailAlpha[k - 1]
          /\ trailAlpha'[1] \in 0..TrailAlphaMax]_vars

\* an alpha written to slot 0 and shifted once
C23_Witness ==
    /\ trailFrame = 0
    /\ springFrames >= 4
    /\ trailAlpha[2] > 0
    /\ trailAlpha[2] < trailAlpha[1]

\* ------------------------------------------------------------------ C24
\* C24 as stated: every generator call returns exactly count * 3 values
\* with every particle assigned.
C24_CountTimesThree ==
    generated # NoResult =>
        /\ generated.length = genRequest.count * 3
        /\ generated.unassigned = {}

\* C24 amended: a generator of PARTICLE_TEMPLATES returns exactly count * 3
\* values, generateGeometry returns count * TRAIL_LENGTH * 3 values (five
\* copies of every particle), and in both every particle or vertex has been
\* assigned; for count = 0 the array is empty.
C24_EveryIndexAssigned ==
    generated # NoResult =>
        /\ generated.length =
             IF genRequest.module = "particleTemplates" THEN genRequest.count * 3
             ELSE genRequest.count * GeometryTrailLength * 3
        /\ generated.unassigned = {}
        /\ (genRequest.count = 0 => generated.length = 0)

\* generateGeometry returned fireworks whose count no burst count divides
C24_Witness ==
    /\ generated # NoResult
    /\ genRequest.module = "geometryFactory"
    /\ genRequest.name = "fireworks"
    /\ genRequest.count = 1000
    /\ genRequest.burstCount = 3
    /\ generated.length = 15000
    /\ generated.unassigned = {}

\* ------------------------------------------------------------------ C25
\* generateCosmos was called with the count of the claim
CosmosGenerated ==
    /\ generated # NoResult
    /\ genRequest.name = "cosmos"
    /\ genRequest.count = CosmosCount

\* C25 as stated: of the 100000 points of generateCosmos more lie within
\* the core radius than beyond it.
C25_CoreHoldsMajority == CosmosGenerated => generated.inside > generated.beyond

\* C25 amended: the floor(0.2 * count) core points lie within the core
\* radius and every halo point lies beyond it unless Math.random() returned
\* exactly 0 for it, so the core holds a fifth of the points; it is denser
\* per volume: the halo shell has 26 times the volume of the core sphere
\* and fewer than 26 times its points.
C25_CoreIsDenserNotLarger ==
    CosmosGenerated =>
        /\ generated.inside >= FloorPct(CosmosCount, CosmosCorePct)
        /\ (genRequest.uHalo # 0 =>
              /\ generated.inside = FloorPct(CosmosCount, CosmosCorePct)
                                      + genRequest.zeroDraws
              /\ generated.inside < generated.beyond)
        /\ generated.inside * (CosmosHaloFactor * CosmosHaloFactor * CosmosHaloFactor - 1)
             > generated.beyond

\* 100000 points were generated and the halo draws were not all 0
C25_Witness ==
    /\ CosmosGenerated
    /\ genRequest.uHalo = 100
    /\ genRequest.zeroDraws = MaxZeroDraws
    /\ generated.inside = FloorPct(CosmosCount, CosmosCorePct) + MaxZeroDraws
    /\ generated.beyond = CosmosCount - generated.inside
    /\ generated.beyond > 3 * generated.inside

\* ------------------------------------------------------------------ C26
\* C26: last request wins: once the scene is idle again after one or more
\* template effects, target is the array the most recent of them generated.
C26_LastRequestWins ==
    (lifecycle = "running" /\ phase = "idle" /\ nextGen > 1)
        => targetPositionsRef = Generate(selectedTemplate, nextGen - 1)

\* ------------------------------------------------------------------ C27
\* C27: while the phase is exploding or reforming no new transition starts:
\* no step takes reforming back to exploding, and no step lowers the phase
\* timer within a phase.
C27_NoRestartDuringTransition ==
    [][phase # "idle" =>
          /\ ~(phase = "reforming" /\ phase' = "exploding")
          /\ (phase' = phase => explosionRef'.progress >= explosionRef.progress)]_vars

\* ------------------------------------------------------------------ C28
\* every init() of the page has settled
InitsSettled == \A run \in EffectRuns : pageInitPc[run] # "importing"

\* C28: once the page is unmounted and every init() in flight has settled,
\* no loop body executes and no loop is left requested.
C28_NoLoopAfterUnmount ==
    /\ [][(pagePc = "unmounted" /\ InitsSettled) => loopFrames' = loopFrames]_vars
    /\ [](pagePc = "unmounted" /\ InitsSettled
             => \A run \in EffectRuns : ~loopRequest[run])

\* ------------------------------------------------------------------ C29
\* C29: whenever isExploded is false, bloomTarget is BLOOM_DEFAULT.
C29_BloomFollowsExplosion ==
    (bloomPage # "none" /\ ~isExploded)
        => bloomTarget = BloomConfig(bloomPage).BLOOM_DEFAULT

\* ------------------------------------------------------------------ C30
\* C30: after handleHandUpdate triggers an explosion none of its next 29
\* calls triggers another one: two triggers are at least 30 calls apart.
C30_TriggersThirtyCallsApart ==
    /\ [][(sinceExplosion' = 0 /\ explosionsSeen > 0)
             => sinceExplosion >= ZenCooldown - 1]_vars
    /\ [](lastGap = 0 \/ lastGap >= ZenCooldown)

\* a second explosion on the thirtieth call after the first
C30_Witness ==
    /\ explosionsSeen = 2
    /\ sinceExplosion = 0
    /\ lastGap = ZenCooldown
    /\ explosionCooldownRef = ZenCooldown

====
